---- MODULE Spec2Model ----
(***************************************************************************)
(* Model of the claude-rio UserPromptSubmit pipeline: the shell fast       *)
(* filter (hook.sh / hook.ps1), the Node handler (main, runMatchers), the  *)
(* payload / module / result validators, the ranking step and the reply.   *)
(***************************************************************************)
EXTENDS Integers, Sequences, FiniteSets, TLC

----------------------------------------------------------------------------
(* JavaScript values.  Every value is a record of one shape so that values *)
(* of different JavaScript types can be compared: t is the result of       *)
(* typeof (with "null" kept apart from "object"), s the text of a string   *)
(* (or "int" / "frac" for a number), n the integer part of a number.       *)

Undef == [t |-> "undefined", s |-> "", n |-> 0]
Null == [t |-> "null", s |-> "", n |-> 0]
Str(x) == [t |-> "string", s |-> x, n |-> 0]
Num(k) == [t |-> "number", s |-> "int", n |-> k]
Frac(k) == [t |-> "number", s |-> "frac", n |-> k]
Bool(b) == [t |-> "boolean", s |-> IF b THEN "true" ELSE "false", n |-> 0]

\* String.prototype.trim on the strings of the model
Trim(x) ==
  CASE x = " " -> ""
    [] x = " 1.0 " -> "1.0"
    [] x = " 2.0 " -> "2.0"
    [] x = "1.0 " -> "1.0"
    [] OTHER -> x

\* JavaScript truthiness of a value
Truthy(v) ==
  CASE v.t \in {"undefined", "null"} -> FALSE
    [] v.t = "string" -> v.s # ""
    [] v.t = "number" -> ~(v.s = "int" /\ v.n = 0)
    [] v.t = "boolean" -> v.s = "true"
    [] OTHER -> TRUE

----------------------------------------------------------------------------
(* Matcher results.  kind is "object" for an object (or array) and the     *)
(* typeof of the returned value otherwise; an absent property reads as     *)
(* undefined.                                                              *)

PayloadFields ==
  {"prompt", "cwd", "session_id", "transcript_path", "permission_mode", "hook_event_name"}

ResultFields == {"version", "relevant", "priority", "relevance", "matchCount", "type"}

Obj(version, relevant, priority, relevance, matchCount, type) ==
  [kind |-> "object", version |-> version, relevant |-> relevant,
   priority |-> priority, relevance |-> relevance,
   matchCount |-> matchCount, type |-> type]

NonObj(k) ==
  [kind |-> k, version |-> Undef, relevant |-> Undef, priority |-> Undef,
   relevance |-> Undef, matchCount |-> Undef, type |-> Undef]

NoValue == NonObj("undefined")

\* utils/result ok() and err(); the error text is kept as the field it names
\* and the check that failed
ok(value) == [ok |-> TRUE, value |-> value, field |-> "", check |-> ""]
err(field, check) == [ok |-> FALSE, value |-> NoValue, field |-> field, check |-> check]

validPriorities == {"critical", "high", "medium", "low"}
validRelevances == {"high", "medium", "low"}
validTypes == {"skill", "agent", "command"}

\* Array.prototype.includes over an array of strings: strict equality
Includes(set, v) == v.t = "string" /\ v.s \in set

----------------------------------------------------------------------------
(* hooks/UserPromptSubmit/validations.js                                   *)

\* utils/validations requireNonEmptyObject: a non-null object with at least
\* one own key
requireNonEmptyObject(input) ==
  IF input.kind = "object" /\ \E f \in PayloadFields : input[f].t # "undefined"
  THEN ok(input) ELSE err("payload", "required")

\* utils/validations requireNonEmptyString
requireNonEmptyString(v, label) ==
  IF v.t = "string" /\ v.s # "" THEN ok(v) ELSE err(label, "required")

\* validatePayload without the check of hook_event_name
validatePayloadNoEventName(input) ==
  LET basePayload == requireNonEmptyObject(input)
      promptRes == requireNonEmptyString(input.prompt, "prompt")
      cwdRes == requireNonEmptyString(input.cwd, "cwd")
      sessionIdRes == requireNonEmptyString(input.session_id, "session_id")
      transcriptRes == requireNonEmptyString(input.transcript_path, "transcript_path")
      permissionModeRes == requireNonEmptyString(input.permission_mode, "permission_mode")
  IN IF ~basePayload.ok THEN basePayload
     ELSE IF ~promptRes.ok THEN promptRes
     ELSE IF ~cwdRes.ok THEN cwdRes
     ELSE IF ~sessionIdRes.ok THEN sessionIdRes
     ELSE IF ~transcriptRes.ok THEN transcriptRes
     ELSE IF ~permissionModeRes.ok THEN permissionModeRes
     ELSE ok([sessionId |-> sessionIdRes.value,
              transcriptPath |-> transcriptRes.value,
              cwd |-> cwdRes.value,
              permissionMode |-> permissionModeRes.value,
              hookEventName |-> input.hook_event_name,
              prompt |-> promptRes.value])

\* validatePayload with the early returns of the source taken in order
validatePayload(input) ==
  LET basePayload == requireNonEmptyObject(input)
      promptRes == requireNonEmptyString(input.prompt, "prompt")
      cwdRes == requireNonEmptyString(input.cwd, "cwd")
      sessionIdRes == requireNonEmptyString(input.session_id, "session_id")
      transcriptRes == requireNonEmptyString(input.transcript_path, "transcript_path")
      permissionModeRes == requireNonEmptyString(input.permission_mode, "permission_mode")
      hookEventNameRes == requireNonEmptyString(input.hook_event_name, "hook_event_name")
  IN IF ~basePayload.ok THEN basePayload
     ELSE IF ~promptRes.ok THEN promptRes
     ELSE IF ~cwdRes.ok THEN cwdRes
     ELSE IF ~sessionIdRes.ok THEN sessionIdRes
     ELSE IF ~transcriptRes.ok THEN transcriptRes
     ELSE IF ~permissionModeRes.ok THEN permissionModeRes
     ELSE IF ~hookEventNameRes.ok THEN hookEventNameRes
     ELSE ok([sessionId |-> sessionIdRes.value,
              transcriptPath |-> transcriptRes.value,
              cwd |-> cwdRes.value,
              permissionMode |-> permissionModeRes.value,
              hookEventName |-> hookEventNameRes.value,
              prompt |-> promptRes.value])

\* Module export shapes: what typeof mod and typeof mod.match are
ModuleShapes == {"function", "objectWithMatch", "objectNoMatch", "null", "string"}

\* validateMatcherModule: the callable it picks ("export" is mod itself,
\* "match" is mod.match), or an error
validateMatcherModule(mod) ==
  LET fn == IF mod = "function" THEN "export"
            ELSE IF mod = "objectWithMatch" THEN "match"
            ELSE "null"
  IN IF fn = "null" THEN err("module", "callable") ELSE ok(fn)

\* validateMatcherResult without the checks of the relevance field
validateMatcherResultNoRelevance(result) ==
  IF result.kind # "object" THEN err("result", "type")
  ELSE IF result.version.t \in {"undefined", "null"} THEN err("version", "missing")
  ELSE IF result.version.t # "string" THEN err("version", "type")
  ELSE IF Trim(result.version.s) = "" THEN err("version", "empty")
  ELSE IF result.version.s # "1.0" THEN err("version", "value")
  ELSE IF result.relevant.t \in {"undefined", "null"} THEN err("relevant", "missing")
  ELSE IF result.relevant.t # "boolean" THEN err("relevant", "type")
  ELSE IF result.priority.t \in {"undefined", "null"} THEN err("priority", "missing")
  ELSE IF ~Includes(validPriorities, result.priority) THEN err("priority", "value")
  ELSE ok(result)

\* validateMatcherResult of the runtime (schema 1.0)
validateMatcherResult(result) ==
  IF result.kind # "object" THEN err("result", "type")
  ELSE IF result.version.t \in {"undefined", "null"} THEN err("version", "missing")
  ELSE IF result.version.t # "string" THEN err("version", "type")
  ELSE IF Trim(result.version.s) = "" THEN err("version", "empty")
  ELSE IF result.version.s # "1.0" THEN err("version", "value")
  ELSE IF result.relevant.t \in {"undefined", "null"} THEN err("relevant", "missing")
  ELSE IF result.relevant.t # "boolean" THEN err("relevant", "type")
  ELSE IF result.priority.t \in {"undefined", "null"} THEN err("priority", "missing")
  ELSE IF ~Includes(validPriorities, result.priority) THEN err("priority", "value")
  ELSE IF result.relevance.t \in {"undefined", "null"} THEN err("relevance", "missing")
  ELSE IF ~Includes(validRelevances, result.relevance) THEN err("relevance", "value")
  ELSE ok(result)

\* the 2.0 validator comparing the trimmed version with the literal
validateMatcherResultV2Trimmed(result) ==
  IF result.kind # "object" THEN err("result", "type")
  ELSE IF result.version.t \in {"undefined", "null"} THEN err("version", "missing")
  ELSE IF result.version.t # "string" THEN err("version", "type")
  ELSE IF Trim(result.version.s) = "" THEN err("version", "empty")
  ELSE IF Trim(result.version.s) # "2.0" THEN err("version", "value")
  ELSE IF result.matchCount.t \in {"undefined", "null"} THEN err("matchCount", "missing")
  ELSE IF result.matchCount.t # "number" THEN err("matchCount", "type")
  ELSE IF result.matchCount.s # "int" THEN err("matchCount", "integer")
  ELSE IF result.matchCount.n < 0 THEN err("matchCount", "negative")
  ELSE IF result.type.t \notin {"undefined", "null"} /\ ~Includes(validTypes, result.type)
       THEN err("type", "value")
  ELSE ok(result)

(* cli/utils/matcher-validator.js, the schema 2.0 validator                *)
validateMatcherResultV2(result) ==
  IF result.kind # "object" THEN err("result", "type")
  ELSE IF result.version.t \in {"undefined", "null"} THEN err("version", "missing")
  ELSE IF result.version.t # "string" THEN err("version", "type")
  ELSE IF Trim(result.version.s) = "" THEN err("version", "empty")
  ELSE IF result.version.s # "2.0" THEN err("version", "value")
  ELSE IF result.matchCount.t \in {"undefined", "null"} THEN err("matchCount", "missing")
  ELSE IF result.matchCount.t # "number" THEN err("matchCount", "type")
  ELSE IF result.matchCount.s # "int" THEN err("matchCount", "integer")
  ELSE IF result.matchCount.n < 0 THEN err("matchCount", "negative")
  ELSE IF result.type.t \notin {"undefined", "null"} /\ ~Includes(validTypes, result.type)
       THEN err("type", "value")
  ELSE ok(result)

(* shared/matcher-validation-core.js: every failure is collected, field by *)
(* field, in the order of the schema                                       *)
checkMatcherResultCore(result) ==
  IF result.kind # "object" THEN <<err("result", "type")>>
  ELSE
    (IF result.version.t \in {"undefined", "null"} THEN <<err("version", "missing")>>
     ELSE IF result.version.t # "string" THEN <<err("version", "type")>>
     ELSE IF Trim(result.version.s) = "" THEN <<err("version", "empty")>>
     ELSE IF result.version.s # "1.0" THEN <<err("version", "value")>>
     ELSE <<>>)
    \o
    (IF result.relevant.t \in {"undefined", "null"} THEN <<err("relevant", "missing")>>
     ELSE IF result.relevant.t # "boolean" THEN <<err("relevant", "type")>>
     ELSE <<>>)
    \o
    (IF result.priority.t \in {"undefined", "null"} THEN <<err("priority", "missing")>>
     ELSE IF ~Includes(validPriorities, result.priority) THEN <<err("priority", "value")>>
     ELSE <<>>)
    \o
    (IF result.relevance.t \in {"undefined", "null"} THEN <<err("relevance", "missing")>>
     ELSE IF ~Includes(validRelevances, result.relevance) THEN <<err("relevance", "value")>>
     ELSE <<>>)

\* the wrapper returning the last collected error
validateMatcherResultCliLast(result) ==
  LET errors == checkMatcherResultCore(result)
  IN IF Len(errors) # 0 THEN errors[Len(errors)] ELSE ok(result)

\* cli/utils/matcher-validator.js validateMatcherResult over the shared
\* core: the first collected error, in the CLI's format
validateMatcherResultCli(result) ==
  LET errors == checkMatcherResultCore(result)
  IN IF Len(errors) # 0 THEN errors[1] ELSE ok(result)

----------------------------------------------------------------------------
(* Bounds and input domains                                                *)

\* at most this many hook groups in the UserPromptSubmit array of an
\* existing settings.json, and hooks in a group
MaxGroups == 2
MaxHooks == 2

\* at most this many setup commands in a row
MaxRuns == 2

\* prompts passed to generateMatchers, and the largest concurrency limit
MaxPrompts == 3
MaxConcurrency == 2

\* at most this many files exist under the search roots
MaxFiles == 2

\* at most this many calls of transcript accessors in one run
MaxAccessorCalls == 2

\* Paths are sequences of segments.  The project directory is <<"proj">>,
\* the home directory <<"home">>.
PROJECT_SKILLS == <<"proj", ".claude", "skills">>
USER_SKILLS == <<"home", ".claude", "skills">>
PROJECT_AGENTS == <<"proj", ".claude", "agents">>
USER_AGENTS == <<"home", ".claude", "agents">>
PROJECT_COMMANDS == <<"proj", ".claude", "commands">>
USER_COMMANDS == <<"home", ".claude", "commands">>

\* The files that may exist on disk
FileUniverse ==
  { PROJECT_SKILLS \o <<"a", "rio", "UserPromptSubmit.matcher.cjs">>,
    PROJECT_SKILLS \o <<"b", "rio", "UserPromptSubmit.matcher.cjs">>,
    USER_SKILLS \o <<"a", "rio", "UserPromptSubmit.matcher.cjs">>,
    PROJECT_SKILLS \o <<"a", "rio", "UserPromptSubmit.rio.matcher.cjs">>,
    PROJECT_SKILLS \o <<"a", "SKILL.md">>,
    PROJECT_AGENTS \o <<"a.rio.matcher.cjs">>,
    USER_AGENTS \o <<"a.rio.matcher.cjs">>,
    PROJECT_AGENTS \o <<"a.md">>,
    PROJECT_COMMANDS \o <<"a.rio.matcher.cjs">> }

IsPrefix(r, p) == Len(r) <= Len(p) /\ SubSeq(p, 1, Len(r)) = r

\* the directories the filters search
SearchRoots ==
  {PROJECT_SKILLS, USER_SKILLS, PROJECT_AGENTS, USER_AGENTS, PROJECT_COMMANDS, USER_COMMANDS}

RootStates == {"ok", "missing", "unreadable"}

\* every search root exists and can be read
AllRootsOk == [r \in SearchRoots |-> "ok"]

\* the files a traversal can see: those whose root exists and can be read
Visible(rs, found) == {p \in found : \A r \in SearchRoots : IsPrefix(r, p) => rs[r] = "ok"}

\* exit status of find over the roots given: non-zero when one of them
\* cannot be traversed (the message goes to /dev/null)
findStatus(rs, searched) == IF \E r \in searched : rs[r] # "ok" THEN 1 ELSE 0

\* the command substitution without "|| true"
orFail(status) == status

\* $(find ... || true): the status of the substitution is that of true
orTrue(status) == 0

\* glob *.rio.matcher.cjs on a file name
EndsRioMatcherCjs(name) ==
  name \in {"a.rio.matcher.cjs", "b.rio.matcher.cjs", "UserPromptSubmit.rio.matcher.cjs"}

\* all orderings of a finite set
RECURSIVE Orderings(_)
Orderings(S) ==
  IF S = {} THEN {<<>>}
  ELSE UNION {{<<x>> \o t : t \in Orderings(S \ {x})} : x \in S}

RECURSIVE Cat(_)
Cat(ss) == IF ss = <<>> THEN <<>> ELSE Head(ss) \o Cat(Tail(ss))

\* the listings one traversal can print: the roots in the order given, the
\* matching files of a root in directory order, which is not specified
RECURSIVE Listings(_, _)
Listings(roots, found) ==
  IF roots = <<>> THEN {<<>>}
  ELSE {h \o t : h \in Orderings({p \in found : IsPrefix(Head(roots), p)}),
                 t \in Listings(Tail(roots), found)}

(* hooks/UserPromptSubmit/hook.sh: the two find commands                   *)
\* -type f -path "*/rio/UserPromptSubmit.matcher.cjs"
ShSkillMatch(p) ==
  /\ Len(p) >= 2
  /\ p[Len(p)] = "UserPromptSubmit.matcher.cjs"
  /\ p[Len(p) - 1] = "rio"

\* -maxdepth 1 -type f -name "*.rio.matcher.cjs" under root r
ShAgentMatch(r, p) == IsPrefix(r, p) /\ Len(p) = Len(r) + 1 /\ EndsRioMatcherCjs(p[Len(p)])

SKILL_MATCHERS(files) ==
  Listings(<<PROJECT_SKILLS, USER_SKILLS>>, {p \in files : ShSkillMatch(p)})

AGENT_MATCHERS(files) ==
  Listings(<<PROJECT_AGENTS, USER_AGENTS>>,
           {p \in files : ShAgentMatch(PROJECT_AGENTS, p) \/ ShAgentMatch(USER_AGENTS, p)})

(* hooks/UserPromptSubmit/hook.ps1: the six Get-ChildItem calls            *)
\* -Recurse -Filter "UserPromptSubmit.rio.matcher.cjs" -File
PsSkillMatch(p) == p[Len(p)] = "UserPromptSubmit.rio.matcher.cjs"

\* -Filter "*.rio.matcher.cjs" -File, not recursive
PsSiblingMatch(r, p) == IsPrefix(r, p) /\ Len(p) = Len(r) + 1 /\ EndsRioMatcherCjs(p[Len(p)])

PsMATCHERS(files) ==
  {Cat(<<s1, s2, a1, a2, c1, c2>>) :
     s1 \in Listings(<<PROJECT_SKILLS>>, {p \in files : PsSkillMatch(p)}),
     s2 \in Listings(<<USER_SKILLS>>, {p \in files : PsSkillMatch(p)}),
     a1 \in Listings(<<PROJECT_AGENTS>>, {p \in files : PsSiblingMatch(PROJECT_AGENTS, p)}),
     a2 \in Listings(<<USER_AGENTS>>, {p \in files : PsSiblingMatch(USER_AGENTS, p)}),
     c1 \in Listings(<<PROJECT_COMMANDS>>, {p \in files : PsSiblingMatch(PROJECT_COMMANDS, p)}),
     c2 \in Listings(<<USER_COMMANDS>>, {p \in files : PsSiblingMatch(USER_COMMANDS, p)})}

----------------------------------------------------------------------------
(* Trigger payloads on stdin                                               *)

Payload(kind, f) ==
  [kind |-> kind, prompt |-> f["prompt"], cwd |-> f["cwd"],
   session_id |-> f["session_id"], transcript_path |-> f["transcript_path"],
   permission_mode |-> f["permission_mode"], hook_event_name |-> f["hook_event_name"]]

GoodFieldValue(f) ==
  CASE f = "prompt" -> Str("docker help")
    [] f = "cwd" -> Str("/proj")
    [] f = "session_id" -> Str("s1")
    [] f = "transcript_path" -> Str("/t.jsonl")
    [] f = "permission_mode" -> Str("ask")
    [] OTHER -> Str("UserPromptSubmit")

\* what a field holds when it is missing or not a non-empty string
BadFieldValues == {Undef, Null, Num(7), Str("")}

\* objects in which the fields of bad hold the value v and the others are good
Payloads ==
  {Payload("object", [f \in PayloadFields |-> IF f \in bad THEN v ELSE GoodFieldValue(f)]) :
     bad \in SUBSET PayloadFields, v \in BadFieldValues}

\* JSON values that are not objects
NonObjectPayloads == {Payload(k, [f \in PayloadFields |-> Undef]) : k \in {"null", "number", "string"}}

\* what readJsonFromStdin can return: a parse failure or a parsed value
Stdins ==
  {[json |-> FALSE, value |-> Payload("undefined", [f \in PayloadFields |-> Undef])]}
  \cup {[json |-> TRUE, value |-> v] : v \in Payloads \cup NonObjectPayloads}

ValidStdin ==
  [json |-> TRUE, value |-> Payload("object", [f \in PayloadFields |-> GoodFieldValue(f)])]

\* utils/io readJsonFromStdin
readJsonFromStdin(input) ==
  IF input.json THEN ok(input.value) ELSE err("stdin", "json")

----------------------------------------------------------------------------
(* Matcher modules: what require() gives and what calling the export does: *)
(* it returns a value, resolves or rejects a promise, throws, never        *)
(* settles ("hangs"), assigns to the context it was given and returns      *)
(* ("mutates"), or is an async function that may call the transcript        *)
(* accessors before it resolves ("reads").                                 *)

Module(shape, call, result) == [shape |-> shape, call |-> call, result |-> result]

\* modules that never produce a result
FailingModules ==
  { Module("throws", "none", NoValue),
    Module("null", "none", NoValue),
    Module("objectNoMatch", "none", NoValue),
    Module("function", "throws", NoValue),
    Module("function", "rejects", NoValue),
    Module("objectWithMatch", "rejects", NoValue),
    Module("function", "hangs", NoValue) }

V1(relevant, priority, relevance, type) ==
  Obj(Str("1.0"), relevant, priority, relevance, Undef, type)

V2(matchCount, type) == Obj(Str("2.0"), Undef, Undef, Undef, matchCount, type)

\* results used when several matchers run together, under a 1.0 handler
SomeResultsV1 ==
  { V1(Bool(TRUE), Str("critical"), Str("high"), Str("skill")),
    V1(Bool(TRUE), Str("high"), Str("medium"), Undef),
    V1(Bool(TRUE), Str("high"), Str("high"), Str("agent")),
    V1(Bool(TRUE), Str("low"), Str("low"), Str("")),
    V1(Bool(FALSE), Str("medium"), Str("high"), Str("skill")),
    V1(Null, Str("medium"), Str("high"), Str("skill")),
    V1(Bool(TRUE), Undef, Str("high"), Str("skill")),
    Obj(Str(" 1.0 "), Bool(TRUE), Str("high"), Str("high"), Undef, Str("skill")),
    V2(Num(3), Str("skill")),
    NonObj("undefined") }

\* and under a 2.0 handler
SomeResultsV2 ==
  { V2(Num(0), Str("skill")),
    V2(Num(3), Str("skill")),
    V2(Num(4), Undef),
    V2(Num(8), Str("agent")),
    V2(Num(10), Str("command")),
    V2(Num(50), Null),
    V2(Null, Str("skill")),
    V2(Frac(2), Str("skill")),
    Obj(Str(" 2.0 "), Undef, Undef, Undef, Num(3), Str("skill")),
    V1(Bool(TRUE), Str("critical"), Str("high"), Str("skill")),
    NonObj("undefined") }

SomeModules(b) ==
  FailingModules
  \cup {Module("function", "returns", r) : r \in IF b = "1.0" THEN SomeResultsV1 ELSE SomeResultsV2}
  \cup {Module("objectWithMatch", "resolves",
               IF b = "1.0" THEN V1(Bool(TRUE), Str("medium"), Str("low"), Str("agent"))
               ELSE V2(Num(11), Str("agent")))}
  \cup {Module("function", c,
               IF b = "1.0" THEN V1(Bool(TRUE), Str("high"), Str("high"), Str("skill"))
               ELSE V2(Num(2), Str("skill"))) : c \in {"mutates", "reads"}}

\* every combination of field values, for a matcher that runs alone
VersionValues == {Undef, Null, Num(1), Str(""), Str(" "), Str("1.0"), Str("2.0"), Str(" 1.0 "), Str(" 2.0 ")}
RelevantValues == {Undef, Null, Bool(TRUE), Bool(FALSE), Str("true"), Num(1)}
PriorityValues ==
  {Undef, Null, Num(1), Str("critical"), Str("high"), Str("medium"), Str("low"), Str("urgent")}
RelevanceValues == {Undef, Null, Str("high"), Str("medium"), Str("low"), Str("critical")}
MatchCountValues == {Undef, Null, Str("3"), Frac(2), Num(0 - 1), Num(0), Num(3), Num(10), Num(11)}
TypeValues == {Undef, Null, Str("skill"), Str("agent"), Str("command"), Str("bogus"), Num(5)}

AllResults ==
  {Obj(v, r, p, c, Undef, ty) : v \in VersionValues, r \in RelevantValues,
     p \in PriorityValues, c \in RelevanceValues, ty \in {Undef, Str("agent"), Str("bogus")}}
  \cup {Obj(v, Undef, Undef, Undef, m, ty) : v \in VersionValues, m \in MatchCountValues,
          ty \in TypeValues}
  \cup {NonObj(k) : k \in {"undefined", "null", "number", "string", "function"}}

\* every export shape, for the matcher that runs alone
ShapeModules ==
  FailingModules
  \cup { Module("string", "none", NoValue),
         Module("objectWithMatch", "returns", V1(Bool(TRUE), Str("high"), Str("high"), Undef)),
         Module("objectWithMatch", "returns", V2(Num(3), Undef)) }

AllModules == {Module("function", "returns", r) : r \in AllResults} \cup ShapeModules

----------------------------------------------------------------------------
(* hooks/UserPromptSubmit/formatter.js (schema 1.0) and formatter.cjs      *)
(* (schema 2.0).  The text is kept as its sequence of lines.               *)

Item(name, type, priority, relevance, matchCount, score) ==
  [name |-> name, type |-> type, priority |-> priority, relevance |-> relevance,
   matchCount |-> matchCount, score |-> score]

\* template-literal conversion of a value to text
ToText(v) ==
  CASE v.t = "string" -> v.s
    [] v.t = "number" -> IF v.s = "int" THEN ToString(v.n) ELSE ToString(v.n) \o ".5"
    [] v.t = "boolean" -> v.s
    [] OTHER -> v.t

relevanceOrder(r) == CASE r = "high" -> 0 [] r = "medium" -> 1 [] OTHER -> 2

\* insertion of x after the elements that do not sort after it: the stable
\* Array.prototype.sort with sortByRelevance
RECURSIVE InsertByRelevance(_, _)
InsertByRelevance(sorted, x) ==
  IF sorted = <<>> THEN <<x>>
  ELSE IF relevanceOrder(Head(sorted).relevance) - relevanceOrder(x.relevance) > 0
       THEN <<x>> \o sorted
       ELSE <<Head(sorted)>> \o InsertByRelevance(Tail(sorted), x)

RECURSIVE SortByRelevance(_)
SortByRelevance(items) ==
  IF items = <<>> THEN <<>>
  ELSE InsertByRelevance(SortByRelevance(SubSeq(items, 1, Len(items) - 1)), items[Len(items)])

IsPriority(p, item) == item.priority = p

RECURSIVE CriticalLines(_, _)
CriticalLines(items, index) ==
  IF items = <<>> THEN <<>>
  ELSE LET item == Head(items)
           line == IF item.type = Str("skill")
                   THEN <<ToString(index + 1) \o ". Invoke the Skill tool with parameter: skill=\""
                            \o item.name \o "\"">>
                   ELSE IF item.type = Str("agent")
                   THEN <<ToString(index + 1)
                            \o ". Delegate to subagent using Task tool with parameter: subagent_type=\""
                            \o item.name \o "\"">>
                   ELSE <<>>
       IN line \o CriticalLines(Tail(items), index + 1)

RECURSIVE HighLines(_)
HighLines(items) ==
  IF items = <<>> THEN <<>>
  ELSE LET item == Head(items)
           line == IF item.type = Str("skill")
                   THEN <<"- " \o item.name \o ": Use Skill tool with skill=\"" \o item.name \o "\"">>
                   ELSE IF item.type = Str("agent")
                   THEN <<"- " \o item.name \o ": Delegate using Task tool with subagent_type=\""
                            \o item.name \o "\"">>
                   ELSE <<>>
       IN line \o HighLines(Tail(items))

RECURSIVE MediumLines(_)
MediumLines(items) ==
  IF items = <<>> THEN <<>>
  ELSE LET item == Head(items)
           line == IF item.type = Str("skill")
                   THEN <<"- " \o item.name \o ": Skill tool, skill=\"" \o item.name \o "\"">>
                   ELSE IF item.type = Str("agent")
                   THEN <<"- " \o item.name \o ": Task tool, subagent_type=\"" \o item.name \o "\"">>
                   ELSE <<>>
       IN line \o MediumLines(Tail(items))

RECURSIVE LowLines(_)
LowLines(items) ==
  IF items = <<>> THEN <<>>
  ELSE <<"- " \o Head(items).name \o " (" \o ToText(Head(items).type) \o ")">>
       \o LowLines(Tail(items))

\* String.prototype.trim on a text that starts with a heading: the trailing
\* empty lines go
RECURSIVE TrimLines(_)
TrimLines(lines) ==
  IF lines # <<>> /\ lines[Len(lines)] = "" THEN TrimLines(SubSeq(lines, 1, Len(lines) - 1))
  ELSE lines

\* formatter.js formatActiveSkillsAsDirective
formatActiveSkillsAsDirective(items) ==
  IF Len(items) = 0 THEN <<>>
  ELSE
    LET critical == SortByRelevance(SelectSeq(items, LAMBDA s : IsPriority("critical", s)))
        high == SortByRelevance(SelectSeq(items, LAMBDA s : IsPriority("high", s)))
        medium == SortByRelevance(SelectSeq(items, LAMBDA s : IsPriority("medium", s)))
        low == SortByRelevance(SelectSeq(items, LAMBDA s : IsPriority("low", s)))
        criticalBlock ==
          IF Len(critical) > 0
          THEN <<"BEFORE PROCEEDING WITH THIS REQUEST:", "",
                 "CRITICAL REQUIREMENT - Auto-invoke immediately:">>
               \o CriticalLines(critical, 0)
               \o <<"", "IMPORTANT:", "- These MUST be invoked as your FIRST action",
                    "- Wait for each to complete its workflow",
                    "- Do NOT proceed with manual tool usage that these handle", "">>
          ELSE <<>>
        highBlock ==
          IF Len(high) > 0
          THEN (IF Len(critical) = 0 THEN <<"BEFORE PROCEEDING:", "">> ELSE <<>>)
               \o <<"STRONGLY RECOMMENDED:">> \o HighLines(high) \o <<"">>
          ELSE <<>>
        mediumBlock ==
          IF Len(medium) > 0
          THEN <<"SUGGESTED (consider invoking):">> \o MediumLines(medium) \o <<"">>
          ELSE <<>>
        lowBlock ==
          IF Len(low) > 0
          THEN <<"OPTIONAL (available if needed):">> \o LowLines(low) \o <<"">>
          ELSE <<>>
    IN TrimLines(criticalBlock \o highBlock \o mediumBlock \o lowBlock)

\* the ruled line and the title of formatter.cjs, in ASCII
RULE == "----------------------------------------"
TITLE == "RELEVANT SKILLS/AGENTS/COMMANDS"

RECURSIVE RankedLines(_, _)
RankedLines(items, index) ==
  IF items = <<>> THEN <<>>
  ELSE LET item == Head(items)
           toolInstruction ==
             IF item.type = Str("skill") THEN "Skill tool, skill=\"" \o item.name \o "\""
             ELSE IF item.type = Str("agent")
             THEN "Task tool, subagent_type=\"" \o item.name \o "\""
             ELSE "SlashCommand tool, command=\"/" \o item.name \o "\""
       IN <<ToString(index + 1) \o ". " \o item.name \o ": " \o toolInstruction>>
          \o RankedLines(Tail(items), index + 1)

\* formatter.cjs formatActiveSkillsAsDirective
formatActiveSkillsAsDirectiveV2(items) ==
  IF Len(items) = 0 THEN <<>>
  ELSE <<RULE, TITLE, RULE, "">> \o RankedLines(items, 0)
       \o <<"", RULE, "ACTION: Consider using the above tools BEFORE responding", RULE>>

----------------------------------------------------------------------------
(* State of one run of the hook                                            *)

VARIABLES
  platform,      \* "sh" (hook.sh) or "ps1" (hook.ps1)
  roots,         \* each search root: "ok", "missing" or "unreadable"
  build,         \* schema of the installed handler: "1.0" or "2.0"
  files,         \* the files on disk
  subject,       \* 0, or the position of the matcher whose module is unrestricted
  pc,            \* position of the run
  MATCHER_PATHS, \* the environment variable, as the list of its lines
  started,       \* the Node handler was started
  stdin,         \* what the host wrote to the hook's stdin
  matcherFiles,  \* main: {name, matcherPath, detectedType} per path
  context,       \* main: the object passed to every matcher
  idx,           \* runMatchers: position of the for loop (1-based)
  modules,       \* the module found at each path required so far
  loads,         \* times each matcher file was required
  calls,         \* times each matcher function was called
  active,        \* runMatchers: the list being built
  log,           \* entries passed to logger.log
  stdout,        \* objects written to stdout
  transcript,    \* utils/transcript: the cache, file reads and accessor calls
  exitCode,      \* process exit code, -1 while running
  cliPc,         \* validateMatcher of the CLI: "idle", "call" or "done"
  cliValidation, \* validateMatcher of the CLI: the ValidationResult it returns
  settings,      \* .claude/settings.json of the target directory
  settingsBefore, \* what settings.json held before the first command
  settingsFirst, \* what settings.json held after the first setup
  hooksDir,      \* the framework's directory under .claude/hooks exists
  isUserLevel,   \* options.user of the command
  runs,          \* setup or remove commands finished
  cliResult,     \* "none", or how the last command ended: "ok" / "error"
  rmPc,          \* removeCommand: the step it is at
  removed,       \* removeCommand: const removed = {hooks, skillMatchers, agentMatchers, settings}
  poolPc,        \* generateMatchers: "idle" or "called"
  skillPrompts,  \* generateMatchers: the skillName of each input prompt
  concurrency,   \* generateMatchers: options.concurrency
  queue,         \* generateMatchers: the prompts not started, by position in skillPrompts
  inProgress,    \* generateMatchers: the Set of skillNames
  jobs,          \* the state of each prompt's generateMatcher job and onProgress callback
  poolResults,   \* generateMatchers: const results = []
  results,       \* generate-matchers command: const results = {created, failed, completed}
  resolved,      \* the promise returned by generateMatchers has resolved
  report         \* what the command found when the promise resolved

\* the state of the command line tool
validateVars == <<cliPc, cliValidation>>

installVars == <<settings, settingsBefore, settingsFirst, hooksDir, isUserLevel, runs, cliResult>>

removeVars == <<rmPc, removed>>

poolVars ==
  <<poolPc, skillPrompts, concurrency, queue, inProgress, jobs, poolResults, results, resolved,
    report>>

cliVars == <<validateVars, installVars, removeVars, poolVars>>

\* the state of one run of the hook
hookVars ==
  <<platform, roots, build, files, subject, transcript, pc, MATCHER_PATHS, started, stdin,
    matcherFiles, context, idx, modules, loads, calls, active, log, stdout, exitCode>>

vars ==
  <<platform, roots, build, files, subject, transcript, pc, MATCHER_PATHS, started, stdin,
    matcherFiles, context, idx, modules, loads, calls, active, log, stdout, exitCode, cliVars>>

NoContext ==
  [prompt |-> Undef, cwd |-> Undef, transcriptPath |-> Undef, permissionMode |-> Undef,
   sessionId |-> Undef, meta |-> [schemaVersion |-> ""]]

\* utils/transcript before any accessor is called: nothing cached, the file
\* not read
NoTranscript == [cache |-> "none", reads |-> 0, asked |-> 0]

LogEntry(level, event, name, error) ==
  [level |-> level, event |-> event, name |-> name, error |-> error]

\* the cap on matchCount
MaxMatchCount == 10

Min(a, b) == IF a < b THEN a ELSE b
Max(a, b) == IF a > b THEN a ELSE b

\* no cap
cappedCountNone(matchCount) == matchCount

\* the count a candidate carries into scoring
cappedCount(matchCount) == Min(matchCount, MaxMatchCount)

RECURSIVE maxMatchCount(_)
maxMatchCount(items) ==
  IF items = <<>> THEN 0
  ELSE Max(cappedCount(Head(items).matchCount), maxMatchCount(Tail(items)))

\* a score is the fraction num / den
Score(num, den) == [num |-> num, den |-> den]
NoScore == Score(0, 1)
ScoreLess(x, y) == x.num * y.den < y.num * x.den

\* insertion for increasing score
RECURSIVE InsertByScoreAscending(_, _)
InsertByScoreAscending(sorted, x) ==
  IF sorted = <<>> THEN <<x>>
  ELSE IF ScoreLess(x.score, Head(sorted).score) THEN <<x>> \o sorted
       ELSE <<Head(sorted)>> \o InsertByScoreAscending(Tail(sorted), x)

\* stable sort by decreasing score
RECURSIVE InsertByScore(_, _)
InsertByScore(sorted, x) ==
  IF sorted = <<>> THEN <<x>>
  ELSE IF ScoreLess(Head(sorted).score, x.score) THEN <<x>> \o sorted
       ELSE <<Head(sorted)>> \o InsertByScore(Tail(sorted), x)

RECURSIVE SortByScore(_)
SortByScore(items) ==
  IF items = <<>> THEN <<>>
  ELSE InsertByScore(SortByScore(SubSeq(items, 1, Len(items) - 1)), items[Len(items)])

\* score = cappedCount / maxMatchCount, then ranking, highest first
Rank(candidates) ==
  LET m == maxMatchCount(candidates)
  IN SortByScore([i \in 1..Len(candidates) |->
                    [candidates[i] EXCEPT
                       !.score = Score(cappedCount(candidates[i].matchCount), m)]])

----------------------------------------------------------------------------
(* handler.js main, lines 49-96: matcher file records and context          *)

\* matcherPath.includes('/.claude/agents/')
isAgent(p) == \E i \in 1..(Len(p) - 2) : p[i] = ".claude" /\ p[i + 1] = "agents"

\* path.basename(path.dirname(path.dirname(matcherPath)))
nameOf(p) == p[Len(p) - 2]

matcherFile(p) ==
  [name |-> nameOf(p), matcherPath |-> p,
   detectedType |-> IF isAgent(p) THEN Str("agent") ELSE Str("skill")]

\* name of a sibling matcher file with the protocol suffix stripped
StripSuffix(name) ==
  CASE name = "a.rio.matcher.cjs" -> "a"
    [] name = "b.rio.matcher.cjs" -> "b"
    [] name = "UserPromptSubmit.rio.matcher.cjs" -> "UserPromptSubmit"
    [] OTHER -> name

\* the 2.0 handler: kind from the root directory, name by layout
matcherFileV2(p) ==
  LET kind == IF \E i \in 1..(Len(p) - 2) : p[i] = ".claude" /\ p[i + 1] = "agents"
              THEN "agent"
              ELSE IF \E i \in 1..(Len(p) - 2) : p[i] = ".claude" /\ p[i + 1] = "commands"
              THEN "command"
              ELSE "skill"
  IN [name |-> IF kind = "skill" THEN p[Len(p) - 2] ELSE StripSuffix(p[Len(p)]),
      matcherPath |-> p, detectedType |-> Str(kind)]

buildContext(payload, schemaVersion) ==
  [prompt |-> payload.prompt, cwd |-> payload.cwd, transcriptPath |-> payload.transcriptPath,
   permissionMode |-> payload.permissionMode, sessionId |-> payload.sessionId,
   meta |-> [schemaVersion |-> schemaVersion]]

----------------------------------------------------------------------------
(* Initial states                                                          *)

Builds == {"1.0", "2.0"}
Platforms == {"sh", "ps1"}

\* the command line tool has not been used
NoValidation == [valid |-> FALSE, error |-> "none", field |-> "", check |-> ""]

\* no settings.json
NoSettings ==
  [file |-> "absent", keys |-> {}, hooks |-> FALSE, events |-> {}, ups |-> "absent",
   groups |-> <<>>]

\* const removed = { hooks: false, skillMatchers: 0, agentMatchers: 0, settings: false }
NothingRemoved == [hooks |-> FALSE, skillMatchers |-> 0, agentMatchers |-> 0, settings |-> FALSE]

\* const { concurrency = 5 } = options
DefaultConcurrency == 5

\* item.name of the selected skills, agents and commands
SkillNames == {"a", "b"}

\* const results = { created: [], failed: [], completed: [] }
NoResults == [created |-> <<>>, failed |-> <<>>, completed |-> <<>>]

NoReport ==
  [results |-> 0, completed |-> 0, created |-> 0, failed |-> 0, exit |-> 0, pending |-> 0,
   unsettled |-> 0]

\* generateMatchers has not been called
InitPoolIdle ==
  /\ poolPc = "idle"
  /\ queue = <<>>
  /\ inProgress = {}
  /\ jobs = <<>>
  /\ poolResults = <<>>
  /\ results = NoResults
  /\ resolved = FALSE
  /\ report = NoReport

InitCli ==
  /\ cliPc = "idle"
  /\ cliValidation = NoValidation
  /\ settings = NoSettings
  /\ settingsBefore = NoSettings
  /\ settingsFirst = NoSettings
  /\ hooksDir = FALSE
  /\ isUserLevel = FALSE
  /\ runs = 0
  /\ cliResult = "none"
  /\ rmPc = "idle"
  /\ removed = NothingRemoved
  /\ InitPoolIdle
  /\ skillPrompts = <<>>
  /\ concurrency = DefaultConcurrency

InitRun ==
  /\ pc = "hook"
  /\ MATCHER_PATHS = <<>>
  /\ started = FALSE
  /\ matcherFiles = <<>>
  /\ context = NoContext
  /\ idx = 0
  /\ modules = <<>>
  /\ loads = <<>>
  /\ calls = <<>>
  /\ active = <<>>
  /\ log = <<>>
  /\ stdout = <<>>
  /\ exitCode = -1
  /\ transcript = NoTranscript
  /\ InitCli
  /\ roots = AllRootsOk

\* any small set of files, matcher modules from the sets used together
Init ==
  /\ platform \in Platforms
  /\ build \in Builds
  /\ files \in {F \in SUBSET FileUniverse : Cardinality(F) <= MaxFiles}
  /\ subject = 0
  /\ stdin \in Stdins
  /\ InitRun

\* two skill matchers, named as the installed filter expects, one of which
\* may return anything at all
InitAll ==
  /\ platform \in Platforms
  /\ build \in Builds
  /\ files = LET f == IF platform = "sh" THEN "UserPromptSubmit.matcher.cjs"
                      ELSE "UserPromptSubmit.rio.matcher.cjs"
             IN { PROJECT_SKILLS \o <<"a", "rio", f>>, USER_SKILLS \o <<"b", "rio", f>> }
  /\ subject \in {1, 2}
  /\ stdin = ValidStdin
  /\ InitRun

\* the modules that may be found at position i
FewModules ==
  { Module("function", "returns", V1(Bool(TRUE), Str("high"), Str("low"), Str("skill"))),
    Module("function", "returns", V2(Num(4), Str("skill"))),
    Module("function", "throws", NoValue),
    Module("function", "mutates", V2(Num(2), Str("skill"))),
    Module("function", "reads", V1(Bool(TRUE), Str("medium"), Str("high"), Str("skill"))) }

ModulesAt(i) ==
  IF subject = 0 THEN SomeModules(build)
  ELSE IF i = subject THEN AllModules
  ELSE FewModules

----------------------------------------------------------------------------
(* The fast filter                                                         *)

\* the scripts without the early exit
DispatchAlways(MATCHERS) ==
  /\ MATCHER_PATHS' = MATCHERS
  /\ started' = TRUE
  /\ pc' = "main"
  /\ UNCHANGED exitCode

\* what both scripts do with the list: exit 0 when it is empty, else export
\* MATCHER_PATHS and start node on the handler
Dispatch(MATCHERS) ==
  IF MATCHERS = <<>>
  THEN /\ pc' = "exited"
       /\ exitCode' = 0
       /\ UNCHANGED <<MATCHER_PATHS, started>>
  ELSE /\ MATCHER_PATHS' = MATCHERS
       /\ started' = TRUE
       /\ pc' = "main"
       /\ UNCHANGED exitCode

\* hook.sh: under set -e a failing assignment ends the script with the
\* status of the command
HookSh ==
  /\ pc = "hook"
  /\ platform = "sh"
  /\ LET skillStatus == orTrue(findStatus(roots, {PROJECT_SKILLS, USER_SKILLS}))
         agentStatus == orTrue(findStatus(roots, {PROJECT_AGENTS, USER_AGENTS}))
     IN IF skillStatus # 0 \/ agentStatus # 0
        THEN /\ pc' = "exited"
             /\ exitCode' = IF skillStatus # 0 THEN skillStatus ELSE agentStatus
             /\ UNCHANGED <<MATCHER_PATHS, started>>
        ELSE \E skills \in SKILL_MATCHERS(Visible(roots, files)),
                agents \in AGENT_MATCHERS(Visible(roots, files)) :
               Dispatch(skills \o agents)
  /\ UNCHANGED <<cliVars, roots, platform, build, files, subject, transcript, stdin, matcherFiles, context, idx,
                 modules, loads, calls, active, log, stdout>>

\* hook.ps1: a missing root fails Test-Path and is skipped, an unreadable
\* one makes Get-ChildItem fail silently (-ErrorAction SilentlyContinue)
HookPs1 ==
  /\ pc = "hook"
  /\ platform = "ps1"
  /\ \E MATCHERS \in PsMATCHERS(Visible(roots, files)) : Dispatch(MATCHERS)
  /\ UNCHANGED <<cliVars, roots, platform, build, files, subject, transcript, stdin, matcherFiles, context, idx,
                 modules, loads, calls, active, log, stdout>>

----------------------------------------------------------------------------
(* hooks/UserPromptSubmit/handler.js                                       *)

\* fail that exits with code 0
failExitZero(res) ==
  /\ log' = Append(log, LogEntry("error", "fatal", "", res.field))
  /\ exitCode' = 0
  /\ pc' = "exited"

\* fail(message): log the error, process.exit(1)
fail(res) ==
  /\ log' = Append(log, LogEntry("error", "fatal", "", res.field))
  /\ exitCode' = 1
  /\ pc' = "exited"

\* main up to the call of runMatchers
Main ==
  /\ pc = "main"
  /\ LET inputResult == readJsonFromStdin(stdin)
         payloadResult == validatePayload(inputResult.value)
     IN IF ~inputResult.ok
        THEN /\ fail(inputResult)
             /\ UNCHANGED <<matcherFiles, context, idx, loads, calls>>
        ELSE IF ~payloadResult.ok
        THEN /\ fail(payloadResult)
             /\ UNCHANGED <<matcherFiles, context, idx, loads, calls>>
        ELSE /\ matcherFiles' =
                  [i \in 1..Len(MATCHER_PATHS) |->
                     IF build = "1.0" THEN matcherFile(MATCHER_PATHS[i])
                     ELSE matcherFileV2(MATCHER_PATHS[i])]
             /\ context' = buildContext(payloadResult.value, build)
             /\ log' = log \o <<LogEntry("info", "payload", "", ""),
                                LogEntry("info", "matchers-discovered", "", "")>>
             /\ idx' = 1
             /\ loads' = [i \in 1..Len(MATCHER_PATHS) |-> 0]
             /\ calls' = [i \in 1..Len(MATCHER_PATHS) |-> 0]
             /\ pc' = "runMatchers"
             /\ UNCHANGED exitCode
  /\ UNCHANGED <<cliVars, roots, platform, build, files, subject, transcript, MATCHER_PATHS, started, stdin, modules,
                 active, stdout>>

\* continue written as return: the loop ends at the first failure
continueAbort(i) == Len(matcherFiles) + 1

\* continue that skips the matcher file after the failing one
continueSkip(i) == i + 2

\* continue: the for loop goes on with the next matcher file
continue(i) == i + 1

\* runMatchers, one iteration up to the call: require and validateMatcherModule
LoadMatcher ==
  /\ pc = "runMatchers"
  /\ idx <= Len(matcherFiles)
  /\ \E m \in ModulesAt(idx) :
       LET matcherInfo == matcherFiles[idx]
           validation == validateMatcherModule(m.shape)
       IN /\ \A j \in 1..Len(modules) :
               matcherFiles[j].matcherPath = matcherInfo.matcherPath => m = modules[j]
          /\ modules' = Append(modules, m)
          /\ loads' = [loads EXCEPT ![idx] = @ + 1]
          /\ IF m.shape = "throws"
             THEN /\ log' = Append(log, LogEntry("error", "matcher-load-failed", matcherInfo.name, "load"))
                  /\ idx' = continue(idx)
                  /\ UNCHANGED pc
             ELSE IF ~validation.ok
             THEN /\ log' = Append(log, LogEntry("error", "matcher-invalid", matcherInfo.name, validation.field))
                  /\ idx' = continue(idx)
                  /\ UNCHANGED pc
             ELSE /\ pc' = "call"
                  /\ UNCHANGED <<log, idx>>
  /\ UNCHANGED <<cliVars, roots, platform, build, files, subject, transcript, MATCHER_PATHS, started, stdin, matcherFiles,
                 context, calls, active, stdout, exitCode>>

\* matcherFn(context) is called; the handler awaits what it returned
\* what the synchronous part of a matcher leaves of the object it was given:
\* the object is passed by reference and is not frozen
contextAfter(m, ctx) ==
  IF m.call = "mutates" THEN [ctx EXCEPT !.prompt = Str("tampered")] ELSE ctx

CallMatcher ==
  /\ pc = "call"
  /\ calls' = [calls EXCEPT ![idx] = @ + 1]
  /\ context' = contextAfter(modules[idx], context)
  /\ pc' = "await"
  /\ UNCHANGED <<cliVars, roots, platform, build, files, subject, transcript, MATCHER_PATHS, started, stdin,
                 matcherFiles, idx, modules, loads, active, log, stdout, exitCode>>

\* the accessors of context.transcript
Accessors == {"getConversationHistory", "getToolUsage", "getInitialMessage", "getAllMessages"}

\* an accessor that keeps the parsed messages only: a call made while the
\* first parse is pending reads the file again
accessNoPending(t, accessor) ==
  IF t.cache # "parsed"
  THEN [cache |-> "pending", reads |-> t.reads + 1, asked |-> t.asked + 1]
  ELSE [t EXCEPT !.asked = @ + 1]

\* one call of an accessor: the first call starts reading and parsing the
\* file and caches the pending promise, every other call returns what is
\* cached
access(t, accessor) ==
  IF t.cache = "none"
  THEN [cache |-> "pending", reads |-> t.reads + 1, asked |-> t.asked + 1]
  ELSE [t EXCEPT !.asked = @ + 1]

\* the running matcher calls an accessor
AccessTranscript ==
  /\ pc = "await"
  /\ modules[idx].call = "reads"
  /\ transcript.asked < MaxAccessorCalls
  /\ \E accessor \in Accessors : transcript' = access(transcript, accessor)
  /\ UNCHANGED <<cliVars, roots, platform, build, files, subject, pc, MATCHER_PATHS, started, stdin,
                 matcherFiles, context, idx, modules, loads, calls, active, log, stdout,
                 exitCode>>

\* the file has been read and parsed
ParseTranscript ==
  /\ pc # "exited"
  /\ transcript.cache = "pending"
  /\ transcript' = [transcript EXCEPT !.cache = "parsed"]
  /\ UNCHANGED <<cliVars, roots, platform, build, files, subject, pc, MATCHER_PATHS, started, stdin,
                 matcherFiles, context, idx, modules, loads, calls, active, log, stdout,
                 exitCode>>

\* utils/result wrapAsync around the call: a throw or a rejection becomes a
\* failed result, a value or a fulfilled promise an ok one
wrapAsync(m) ==
  IF m.call \in {"throws", "rejects"} THEN err("exec", "threw") ELSE ok(m.result)

\* the item runMatchers pushes for a validated relevant result (1.0)
activeItem(matcherInfo, matcherResult) ==
  Item(matcherInfo.name,
       IF Truthy(matcherResult.type) THEN matcherResult.type ELSE matcherInfo.detectedType,
       matcherResult.priority.s, matcherResult.relevance.s, 0, NoScore)

\* the candidate the 2.0 handler keeps for a validated result
activeItemV2(matcherInfo, matcherResult) ==
  Item(matcherInfo.name,
       IF Truthy(matcherResult.type) THEN matcherResult.type ELSE matcherInfo.detectedType,
       "", "", matcherResult.matchCount.n, NoScore)

\* validateMatcherResult of the installed build
validateResult(result) ==
  IF build = "1.0" THEN validateMatcherResult(result) ELSE validateMatcherResultV2(result)

\* the relevance test left out
declaresRelevanceAlways(matcherResult) == TRUE

\* if (matcherResult.relevant)
declaresRelevance(matcherResult) == Truthy(matcherResult.relevant)

\* the 2.0 handler keeps the results with matchCount > 0
declaresRelevanceV2(matcherResult) == matcherResult.matchCount.n > 0

\* runMatchers, the rest of the iteration once the awaited call has settled
SettleMatcher ==
  /\ pc = "await"
  /\ modules[idx].call # "hangs"
  /\ LET matcherInfo == matcherFiles[idx]
         execRes == wrapAsync(modules[idx])
         resultValidation == validateResult(execRes.value)
         matcherResult == resultValidation.value
     IN IF ~execRes.ok
        THEN /\ log' = Append(log, LogEntry("error", "matcher-execution-failed",
                                             matcherInfo.name, execRes.field))
             /\ UNCHANGED active
        ELSE IF ~resultValidation.ok
        THEN /\ log' = Append(log, LogEntry("error", "matcher-result-invalid",
                                             matcherInfo.name, resultValidation.field))
             /\ UNCHANGED active
        ELSE /\ active' =
                  IF build = "1.0"
                  THEN IF declaresRelevance(matcherResult)
                       THEN Append(active, activeItem(matcherInfo, matcherResult))
                       ELSE active
                  ELSE IF declaresRelevanceV2(matcherResult)
                       THEN Append(active, activeItemV2(matcherInfo, matcherResult))
                       ELSE active
             /\ UNCHANGED log
  /\ idx' = continue(idx)
  /\ pc' = "runMatchers"
  /\ UNCHANGED <<cliVars, roots, platform, build, files, subject, transcript, MATCHER_PATHS, started, stdin, matcherFiles,
                 context, modules, loads, calls, stdout, exitCode>>

\* the reply object written to stdout
Reply(text) ==
  [hookSpecificOutput |-> [hookEventName |-> "UserPromptSubmit", additionalContext |-> text]]

\* the reply written without the test of the length
writeReplyAlways(out, activeItems, directiveMessage) == Append(out, Reply(directiveMessage))

\* if (activeItems.length > 0) process.stdout.write(JSON.stringify(output))
writeReply(out, activeItems, directiveMessage) ==
  IF Len(activeItems) > 0 THEN Append(out, Reply(directiveMessage)) ELSE out

\* the loop is over: runMatchers returns (the 2.0 handler ranks first), main
\* logs the items, writes the reply when there are items, and exits 0
Finish ==
  /\ pc = "runMatchers"
  /\ idx > Len(matcherFiles)
  /\ LET activeItems == IF build = "1.0" THEN active ELSE Rank(active)
         directiveMessage == IF build = "1.0" THEN formatActiveSkillsAsDirective(activeItems)
                             ELSE formatActiveSkillsAsDirectiveV2(activeItems)
     IN /\ active' = activeItems
        /\ log' = Append(log, LogEntry("info", "items-evaluated", "", ""))
        /\ stdout' = writeReply(stdout, activeItems, directiveMessage)
  /\ exitCode' = 0
  /\ pc' = "exited"
  /\ UNCHANGED <<cliVars, roots, platform, build, files, subject, transcript, MATCHER_PATHS, started, stdin, matcherFiles,
                 context, idx, modules, loads, calls>>

----------------------------------------------------------------------------
(* cli/utils/matcher-validator.js: the CLI validates a matcher file by      *)
(* loading it and calling it once with a test context                      *)

Valid == [valid |-> TRUE, error |-> "none", field |-> "", check |-> ""]

Invalid(error, field, check) ==
  [valid |-> FALSE, error |-> error, field |-> field, check |-> check]

\* validateMatcherFile: the file exists, require succeeds, and
\* typeof matcherModule === 'function'
validateMatcherFile(m) ==
  IF m.shape = "throws" THEN Invalid("load", "", "")
  ELSE IF m.shape # "function" THEN Invalid("export", "module", "callable")
  ELSE Valid

\* validateMatcherResult of the CLI that matches the installed schema
validateResultCli(result) ==
  LET r == IF build = "1.0" THEN validateMatcherResultCli(result)
           ELSE validateMatcherResultV2(result)
  IN IF r.ok THEN Valid ELSE Invalid("result", r.field, r.check)

\* validateMatcher up to the call: validateMatcherFile on the subject's file
CliValidateMatcherFile ==
  /\ pc = "exited"
  /\ subject \in 1..Len(modules)
  /\ cliPc = "idle"
  /\ LET fileValidation == validateMatcherFile(modules[subject])
     IN IF ~fileValidation.valid
        THEN /\ cliValidation' = fileValidation
             /\ cliPc' = "done"
        ELSE /\ cliPc' = "call"
             /\ UNCHANGED cliValidation
  /\ UNCHANGED <<hookVars, installVars, removeVars, poolVars>>

\* validateMatcher, the rest: await matcherModule(testContext) has settled;
\* a throw or a rejection is reported, a value goes to validateMatcherResult
CliValidateMatcher ==
  /\ cliPc = "call"
  /\ modules[subject].call # "hangs"
  /\ cliValidation' =
       IF modules[subject].call \in {"throws", "rejects"} THEN Invalid("threw", "", "")
       ELSE validateResultCli(modules[subject].result)
  /\ cliPc' = "done"
  /\ UNCHANGED <<hookVars, installVars, removeVars, poolVars>>

----------------------------------------------------------------------------
(* cli/utils/copy-templates.js and cli/commands/setup.js: setup.  The       *)
(* content of settings.json is kept as: whether the file is there and       *)
(* parses, its top-level keys other than hooks, whether it has hooks, the   *)
(* hook events other than UserPromptSubmit, and the UserPromptSubmit value. *)
(* A command is its text and the marker substrings the text includes.      *)

BetterMarker == ".claude/hooks/better-hooks/UserPromptSubmit"
RioMarker == ".claude/hooks/rio/"

HookCommand(text, has) == [command |-> text, has |-> has]

\* a hook of the user's own
ExistingHook == HookCommand("your-existing-hook", {})

\* betterHooksCommands.UserPromptSubmit for an OS and an installation type
betterHooksCommand(os, userLevel) ==
  LET shellCommand == IF os = "ps1" THEN "powershell" ELSE "bash"
      hookExt == IF os = "ps1" THEN "ps1" ELSE "sh"
      pathVar == IF userLevel THEN "$HOME" ELSE "$CLAUDE_PROJECT_DIR"
  IN HookCommand(shellCommand \o " " \o pathVar
                   \o "/.claude/hooks/better-hooks/UserPromptSubmit/hook." \o hookExt,
                 {BetterMarker})

\* a hook group {hooks: [...]}, and a group with no hooks array
HookGroup(hooks) == [array |-> TRUE, hooks |-> hooks]
BareGroup == [array |-> FALSE, hooks |-> <<>>]

\* hookGroup.hooks.some(hook => hook.command && hook.command.includes(marker))
groupIncludes(hookGroup, marker) ==
  /\ hookGroup.array
  /\ \E h \in 1..Len(hookGroup.hooks) :
       hookGroup.hooks[h].command # "" /\ marker \in hookGroup.hooks[h].has

\* let settings = { hooks: {} }
FreshSettings ==
  [file |-> "json", keys |-> {}, hooks |-> TRUE, events |-> {}, ups |-> "absent",
   groups |-> <<>>]

\* createSettingsJson: what is written, or that it threw (some() on a
\* UserPromptSubmit that is not an array) before writing
createSettingsJson(s, os, userLevel) ==
  LET hookCommand == betterHooksCommand(os, userLevel)
      loaded == IF s.file = "json" THEN [s EXCEPT !.hooks = TRUE] ELSE FreshSettings
      withArray == IF loaded.ups = "absent" THEN [loaded EXCEPT !.ups = "array"] ELSE loaded
      alreadyExists ==
        \E k \in 1..Len(withArray.groups) : groupIncludes(withArray.groups[k], BetterMarker)
  IN IF withArray.ups # "array" THEN [threw |-> TRUE, settings |-> s]
     ELSE [threw |-> FALSE,
           settings |-> IF alreadyExists THEN withArray
                        ELSE [withArray EXCEPT !.groups = Append(@, HookGroup(<<hookCommand>>))]]

\* setup: copyTemplates creates the hooks directory, copies the hooks and
\* calls createSettingsJson; an exception makes the command end in error
Setup ==
  /\ runs < MaxRuns
  /\ LET res == createSettingsJson(settings, platform, isUserLevel)
     IN /\ hooksDir' = TRUE
        /\ settings' = res.settings
        /\ settingsFirst' = IF runs = 0 THEN res.settings ELSE settingsFirst
        /\ cliResult' = IF res.threw THEN "error" ELSE "ok"
  /\ runs' = runs + 1
  /\ UNCHANGED <<hookVars, validateVars, removeVars, poolVars, settingsBefore, isUserLevel>>

----------------------------------------------------------------------------
(* cli/commands/remove.js: remove.  The installed hook command is the one   *)
(* setup writes, under the directory removeHooksDirectory removes.          *)

rioHooksCommand(os, userLevel) ==
  LET shellCommand == IF os = "ps1" THEN "powershell" ELSE "bash"
      hookExt == IF os = "ps1" THEN "ps1" ELSE "sh"
      pathVar == IF userLevel THEN "$HOME" ELSE "$CLAUDE_PROJECT_DIR"
  IN HookCommand(shellCommand \o " " \o pathVar \o "/.claude/hooks/rio/UserPromptSubmit/hook."
                   \o hookExt,
                 {RioMarker})

\* const targetDir = isUserLevel ? require('os').homedir() : process.cwd()
targetDir(userLevel) == IF userLevel THEN "home" ELSE "proj"

\* removeSkillMatchers: <skillsDir>/<entry>/rio/UserPromptSubmit.matcher.cjs
\* of every directory entry of skillsDir
removedSkillMatchers(dir, fs) ==
  {p \in fs : /\ Len(p) = 6
              /\ IsPrefix(<<dir, ".claude", "skills">>, p)
              /\ p[5] = "rio"
              /\ p[6] = "UserPromptSubmit.matcher.cjs"}

\* removeAgentMatchers: the files of agentsDir whose name ends in .rio.matcher.cjs
removedAgentMatchers(dir, fs) ==
  {p \in fs : /\ Len(p) = 4
              /\ IsPrefix(<<dir, ".claude", "agents">>, p)
              /\ EndsRioMatcherCjs(p[4])}

\* cleanupSettings: the content of the file afterwards and whether it was
\* written.  No file, a file that does not parse, no hooks or no
\* hooks.UserPromptSubmit, or a UserPromptSubmit without filter(): nothing
\* is written.  Otherwise every group that has any hook whose command
\* includes '.claude/hooks/rio/' is dropped.
cleanupSettings(s) ==
  LET keep(hookGroup) == ~groupIncludes(hookGroup, RioMarker)
      kept == SelectSeq(s.groups, keep)
  IN IF s.file # "json" \/ ~s.hooks \/ s.ups # "array" \/ Len(kept) = Len(s.groups)
     THEN [modified |-> FALSE, settings |-> s]
     ELSE [modified |-> TRUE,
           settings |-> [s EXCEPT !.groups = kept,
                                  !.ups = IF kept = <<>> THEN "absent" ELSE "array",
                                  !.hooks = ~(kept = <<>> /\ s.events = {})]]

\* the state of a run of the hook other than the files on disk
runVars ==
  <<platform, roots, build, subject, transcript, pc, MATCHER_PATHS, started, stdin,
    matcherFiles, context, idx, modules, loads, calls, active, log, stdout, exitCode>>

\* removeCommand, step 1: removeHooksDirectory
RemoveHooksDirectory ==
  /\ rmPc = "idle"
  /\ runs < MaxRuns
  /\ removed' = [NothingRemoved EXCEPT !.hooks = hooksDir]
  /\ hooksDir' = FALSE
  /\ rmPc' = "skills"
  /\ UNCHANGED <<hookVars, validateVars, poolVars, settings, settingsBefore, settingsFirst,
                 isUserLevel, runs, cliResult>>

\* removeCommand, step 2: removeSkillMatchers
RemoveSkillMatchers ==
  /\ rmPc = "skills"
  /\ LET gone == removedSkillMatchers(targetDir(isUserLevel), files)
     IN /\ files' = files \ gone
        /\ removed' = [removed EXCEPT !.skillMatchers = Cardinality(gone)]
  /\ rmPc' = "agents"
  /\ UNCHANGED <<runVars, validateVars, poolVars, installVars>>

\* removeCommand, step 3: removeAgentMatchers
RemoveAgentMatchers ==
  /\ rmPc = "agents"
  /\ LET gone == removedAgentMatchers(targetDir(isUserLevel), files)
     IN /\ files' = files \ gone
        /\ removed' = [removed EXCEPT !.agentMatchers = Cardinality(gone)]
  /\ rmPc' = "settings"
  /\ UNCHANGED <<runVars, validateVars, poolVars, installVars>>

\* removeCommand, steps 4 and 5: cleanupSettings, then the summary
CleanupSettings ==
  /\ rmPc = "settings"
  /\ LET res == cleanupSettings(settings)
     IN /\ settings' = res.settings
        /\ removed' = [removed EXCEPT !.settings = res.modified]
  /\ rmPc' = "done"
  /\ runs' = runs + 1
  /\ cliResult' = "ok"
  /\ UNCHANGED <<hookVars, validateVars, poolVars, settingsBefore, settingsFirst, hooksDir,
                 isUserLevel>>

----------------------------------------------------------------------------
(* cli/utils/claude-generator.js generateMatchers and its caller, the       *)
(* generate-matchers command.  A prompt is known by its position in         *)
(* skillPrompts; a job is "queued", "running" (generateMatcher pending),    *)
(* "validating" (onProgress awaiting validateMatcher) or "done" (onProgress *)
(* finished), with the outcome onProgress recorded.                         *)

Job(state, outcome) == [state |-> state, outcome |-> outcome]

\* skillPrompts.find((sp) => sp.skillName === skillName): the first
\* position with the name
find(skillName) ==
  CHOOSE j \in 1..Len(skillPrompts) :
    /\ skillPrompts[j] = skillName
    /\ \A k \in 1..(j - 1) : skillPrompts[k] # skillName

\* processNext, the loop: while (queue.length > 0 && inProgress.size <
\* concurrency) { queue.shift(); inProgress.add(skillName); generateMatcher() }
RECURSIVE startJobs(_, _, _)
startJobs(q, ip, begun) ==
  IF q # <<>> /\ Cardinality(ip) < concurrency
  THEN startJobs(Tail(q), ip \cup {skillPrompts[Head(q)]}, begun \cup {Head(q)})
  ELSE [queue |-> q, inProgress |-> ip, begun |-> begun]

\* what the command goes on with when await generateMatchersUtil returns:
\* the results array, the summary lists and the exit status
Report(res, own, js) ==
  [results |-> Len(res),
   completed |-> Len(own.completed),
   created |-> Len(own.created),
   failed |-> Len(own.failed),
   exit |-> IF Len(own.failed) > 0 THEN 1 ELSE 0,
   pending |-> Cardinality({j \in DOMAIN js : js[j].state \in {"queued", "running"}}),
   unsettled |-> Cardinality({j \in DOMAIN js : js[j].state # "done"})]

\* processNext, called with the queue q and what the callback before it
\* left: resolve(results) when the queue is empty and the set is empty,
\* otherwise the loop
processNext(q, ip, js, res, own) ==
  IF q = <<>> /\ ip = {}
  THEN /\ queue' = q
       /\ inProgress' = ip
       /\ jobs' = js
       /\ resolved' = TRUE
       /\ report' = IF resolved THEN report ELSE Report(res, own, js)
  ELSE LET s == startJobs(q, ip, {})
       IN /\ queue' = s.queue
          /\ inProgress' = s.inProgress
          /\ jobs' = [j \in DOMAIN js |-> IF j \in s.begun THEN Job("running", "none") ELSE js[j]]
          /\ UNCHANGED <<resolved, report>>

\* process.exit(1) after the summary ended the process
Exited == resolved /\ report.exit = 1

\* generateMatchers is called: queue = [...skillPrompts], then processNext()
GenerateMatchers ==
  /\ poolPc = "idle"
  /\ poolPc' = "called"
  /\ processNext([j \in 1..Len(skillPrompts) |-> j], {},
                 [j \in 1..Len(skillPrompts) |-> Job("queued", "none")], <<>>, NoResults)
  /\ UNCHANGED <<hookVars, validateVars, installVars, removeVars, skillPrompts, concurrency,
                 poolResults, results>>

\* a job's generateMatcher resolves with success: false (timeout, exit code
\* or spawn error): the then callback deletes the name, pushes the result,
\* runs onProgress, which has nothing to wait for, and calls processNext
JobFails(j) ==
  /\ poolPc = "called" /\ ~Exited
  /\ jobs[j].state = "running"
  /\ LET skillName == skillPrompts[j]
         own == [results EXCEPT !.failed = Append(@, find(skillName)),
                                !.completed = Append(@, [name |-> skillName, success |-> FALSE])]
         res == Append(poolResults, [skillName |-> skillName, success |-> FALSE])
     IN /\ poolResults' = res
        /\ results' = own
        /\ processNext(queue, inProgress \ {skillName},
                       [jobs EXCEPT ![j] = Job("done", "failed")], res, own)
  /\ UNCHANGED <<hookVars, validateVars, installVars, removeVars, poolPc, skillPrompts,
                 concurrency>>

\* a job's generateMatcher resolves with success: true: the then callback
\* deletes the name, pushes the result and awaits onProgress, which awaits
\* validateMatcher
JobSucceeds(j) ==
  /\ poolPc = "called" /\ ~Exited
  /\ jobs[j].state = "running"
  /\ inProgress' = inProgress \ {skillPrompts[j]}
  /\ poolResults' = Append(poolResults, [skillName |-> skillPrompts[j], success |-> TRUE])
  /\ jobs' = [jobs EXCEPT ![j] = Job("validating", "none")]
  /\ UNCHANGED <<hookVars, validateVars, installVars, removeVars, poolPc, skillPrompts,
                 concurrency, queue, results, resolved, report>>

\* validateMatcher of an onProgress settles: the matcher file goes to
\* created or to failed, the name to completed, and the then callback goes
\* on to processNext
ProgressSettles(j, valid) ==
  /\ poolPc = "called" /\ ~Exited
  /\ jobs[j].state = "validating"
  /\ LET skillName == skillPrompts[j]
         own == IF valid
                THEN [results EXCEPT !.created = Append(@, find(skillName)),
                                     !.completed = Append(@, [name |-> skillName, success |-> TRUE])]
                ELSE [results EXCEPT !.failed = Append(@, find(skillName)),
                                     !.completed = Append(@, [name |-> skillName, success |-> FALSE])]
     IN /\ results' = own
        /\ processNext(queue, inProgress,
                       [jobs EXCEPT ![j] = Job("done", IF valid THEN "created" ELSE "failed")],
                       poolResults, own)
  /\ UNCHANGED <<hookVars, validateVars, installVars, removeVars, poolPc, skillPrompts,
                 concurrency, poolResults>>

Next ==
  \/ HookSh
  \/ HookPs1
  \/ Main
  \/ LoadMatcher
  \/ CallMatcher
  \/ AccessTranscript
  \/ ParseTranscript
  \/ SettleMatcher
  \/ Finish

Spec == Init /\ [][Next]_vars

SpecAll == InitAll /\ [][Next]_vars

\* the fast filter alone, over any state of the search roots; nothing
\* exists under a missing root
InitRoots ==
  /\ platform \in Platforms
  /\ build \in Builds
  /\ files \in {F \in SUBSET FileUniverse : Cardinality(F) <= MaxFiles}
  /\ subject = 0
  /\ stdin = ValidStdin
  /\ pc = "hook"
  /\ MATCHER_PATHS = <<>>
  /\ started = FALSE
  /\ matcherFiles = <<>>
  /\ context = NoContext
  /\ idx = 0
  /\ modules = <<>>
  /\ loads = <<>>
  /\ calls = <<>>
  /\ active = <<>>
  /\ log = <<>>
  /\ stdout = <<>>
  /\ exitCode = -1
  /\ transcript = NoTranscript
  /\ InitCli
  /\ roots \in {rs \in [SearchRoots -> RootStates] :
                  \A r \in SearchRoots : rs[r] = "missing" => ~\E p \in files : IsPrefix(r, p)}

NextRoots ==
  \/ HookSh
  \/ HookPs1

SpecRoots == InitRoots /\ [][NextRoots]_vars

\* the existing settings.json files
SeqsUpTo(S, n) == UNION {[1..k -> S] : k \in 0..n}

SomeGroups(commands) == {HookGroup(h) : h \in SeqsUpTo(commands, MaxHooks)} \cup {BareGroup}

SettingsUniverse(commands) ==
  {NoSettings}
  \cup {[file |-> f, keys |-> k, hooks |-> FALSE, events |-> {}, ups |-> "absent",
         groups |-> <<>>] : f \in {"json", "malformed"}, k \in SUBSET {"permissions"}}
  \cup {[file |-> f, keys |-> k, hooks |-> TRUE, events |-> e, ups |-> u, groups |-> <<>>] :
          f \in {"json", "malformed"}, k \in SUBSET {"permissions"}, e \in SUBSET {"Stop"},
          u \in {"absent", "notArray"}}
  \cup {[file |-> f, keys |-> k, hooks |-> TRUE, events |-> e, ups |-> "array", groups |-> g] :
          f \in {"json", "malformed"}, k \in SUBSET {"permissions"}, e \in SUBSET {"Stop"},
          g \in SeqsUpTo(SomeGroups(commands), MaxGroups)}

\* no hook runs; the state of one run of the hook stays as it is
InitIdle ==
  /\ build = "2.0"
  /\ subject = 0
  /\ stdin = ValidStdin
  /\ pc = "hook"
  /\ MATCHER_PATHS = <<>>
  /\ started = FALSE
  /\ matcherFiles = <<>>
  /\ context = NoContext
  /\ idx = 0
  /\ modules = <<>>
  /\ loads = <<>>
  /\ calls = <<>>
  /\ active = <<>>
  /\ log = <<>>
  /\ stdout = <<>>
  /\ exitCode = -1
  /\ transcript = NoTranscript
  /\ roots = AllRootsOk

\* setup run on any existing settings.json, on either OS, at either level;
\* the file holds the framework's command in one group at most, as setup
\* leaves it
InitSetup ==
  /\ InitIdle
  /\ files = {}
  /\ platform \in Platforms
  /\ cliPc = "idle"
  /\ cliValidation = NoValidation
  /\ isUserLevel \in BOOLEAN
  /\ settings \in SettingsUniverse({ExistingHook, betterHooksCommand(platform, isUserLevel),
                                    betterHooksCommand("ps1", FALSE)})
  /\ Cardinality({k \in 1..Len(settings.groups) :
                    groupIncludes(settings.groups[k], BetterMarker)}) <= 1
  /\ settingsBefore = settings
  /\ settingsFirst = NoSettings
  /\ hooksDir \in BOOLEAN
  /\ runs = 0
  /\ cliResult = "none"
  /\ rmPc = "idle"
  /\ removed = NothingRemoved
  /\ InitPoolIdle
  /\ skillPrompts = <<>>
  /\ concurrency = DefaultConcurrency

NextSetup == Setup

SpecSetup == InitSetup /\ [][NextSetup]_vars

\* remove run on any files and any existing settings.json, on either OS,
\* at either level
InitRemove ==
  /\ InitIdle
  /\ platform \in Platforms
  /\ files \in {F \in SUBSET FileUniverse : Cardinality(F) <= MaxFiles}
  /\ cliPc = "idle"
  /\ cliValidation = NoValidation
  /\ isUserLevel \in BOOLEAN
  /\ settings \in SettingsUniverse({ExistingHook, rioHooksCommand(platform, isUserLevel)})
  /\ settingsBefore = settings
  /\ settingsFirst = NoSettings
  /\ hooksDir \in BOOLEAN
  /\ runs = 0
  /\ cliResult = "none"
  /\ rmPc = "idle"
  /\ removed = NothingRemoved
  /\ InitPoolIdle
  /\ skillPrompts = <<>>
  /\ concurrency = DefaultConcurrency

NextRemove ==
  \/ RemoveHooksDirectory
  \/ RemoveSkillMatchers
  \/ RemoveAgentMatchers
  \/ CleanupSettings

SpecRemove == InitRemove /\ [][NextRemove]_vars

\* generateMatchers called with one to MaxPrompts prompts, whose names may
\* repeat (a skill and a command of one name), and a concurrency limit
InitPool ==
  /\ InitIdle
  /\ platform = "sh"
  /\ files = {}
  /\ cliPc = "idle"
  /\ cliValidation = NoValidation
  /\ isUserLevel = FALSE
  /\ settings = NoSettings
  /\ settingsBefore = NoSettings
  /\ settingsFirst = NoSettings
  /\ hooksDir = FALSE
  /\ runs = 0
  /\ cliResult = "none"
  /\ rmPc = "idle"
  /\ removed = NothingRemoved
  /\ InitPoolIdle
  /\ skillPrompts \in UNION {[1..n -> SkillNames] : n \in 1..MaxPrompts}
  /\ concurrency \in 1..MaxConcurrency

NextPool ==
  \/ GenerateMatchers
  \/ \E j \in 1..Len(skillPrompts) : JobFails(j)
  \/ \E j \in 1..Len(skillPrompts) : JobSucceeds(j)
  \/ \E j \in 1..Len(skillPrompts), valid \in BOOLEAN : ProgressSettles(j, valid)

SpecPool == InitPool /\ [][NextPool]_vars

\* one run of the hook under hook.sh, then the CLI validates the file of the
\* matcher that may be anything
InitValidate ==
  /\ InitAll
  /\ platform = "sh"
  /\ subject = 1

NextValidate ==
  \/ HookSh
  \/ Main
  \/ LoadMatcher
  \/ CallMatcher
  \/ AccessTranscript
  \/ ParseTranscript
  \/ SettleMatcher
  \/ Finish
  \/ CliValidateMatcherFile
  \/ CliValidateMatcher

SpecValidate == InitValidate /\ [][NextValidate]_vars

----------------------------------------------------------------------------
(* Vocabulary of the properties                                            *)

\* the handler ran to the end of main
Ended == pc = "exited" /\ idx > 0

\* the payload on stdin is JSON for an object whose six mandatory fields are
\* non-empty strings
PayloadValid ==
  /\ stdin.json
  /\ stdin.value.kind = "object"
  /\ \A f \in PayloadFields : stdin.value[f].t = "string" /\ stdin.value[f].s # ""

Callable(m) == m.shape \in {"function", "objectWithMatch"}
Completes(m) == Callable(m) /\ m.call \in {"returns", "resolves", "mutates", "reads"}
PassesValidation(m) == Completes(m) /\ validateResult(m.result).ok

\* a matcher that fails in one of the ways the handler absorbs
Fails(m) ==
  \/ m.shape = "throws"
  \/ ~Callable(m)
  \/ m.call \in {"throws", "rejects"}
  \/ Completes(m) /\ ~validateResult(m.result).ok

Relevant(m) ==
  IF build = "1.0" THEN m.result.relevant = Bool(TRUE)
  ELSE m.result.matchCount.t = "number" /\ m.result.matchCount.n > 0

\* what one matcher adds to the list
Contribution(info, m) ==
  IF PassesValidation(m) /\ Relevant(m)
  THEN <<IF build = "1.0" THEN activeItem(info, m.result) ELSE activeItemV2(info, m.result)>>
  ELSE <<>>

RECURSIVE Collected(_, _)
Collected(infos, mods) ==
  IF infos = <<>> THEN <<>>
  ELSE Contribution(Head(infos), Head(mods)) \o Collected(Tail(infos), Tail(mods))

RemoveAt(seq, i) == SubSeq(seq, 1, i - 1) \o SubSeq(seq, i + 1, Len(seq))

Unscored(items) == [k \in 1..Len(items) |-> [items[k] EXCEPT !.score = NoScore]]

IsPermutation(a, b) ==
  /\ Len(a) = Len(b)
  /\ \E f \in [1..Len(a) -> 1..Len(a)] :
       /\ \A x, y \in 1..Len(a) : x # y => f[x] # f[y]
       /\ \A x \in 1..Len(a) : a[x] = b[f[x]]

ScoreEq(x, y) == x.num * y.den = y.num * x.den

\* C1: a matcher that fails (load throws, export not callable, call throws
\* or rejects, result invalid) leaves the run as it would be without it: at
\* the end of the run every other matcher file has been required exactly
\* once and, when its export is callable, called exactly once, and the list
\* of active items is the one the matchers without the failing one produce;
\* no matcher is ever required or called more than once.
C1_FailureIsolation ==
  /\ \A j \in DOMAIN loads : loads[j] <= 1 /\ calls[j] <= 1
  /\ Ended => Len(modules) = Len(matcherFiles)
  /\ Ended =>
       \A i \in 1..Len(modules) :
         Fails(modules[i]) =>
           /\ \A j \in (1..Len(modules)) \ {i} :
                /\ loads[j] = 1
                /\ calls[j] = IF Callable(modules[j]) THEN 1 ELSE 0
           /\ LET infos == RemoveAt(matcherFiles, i)
                  mods == RemoveAt(modules, i)
              IN active = IF build = "1.0" THEN Collected(infos, mods)
                          ELSE Rank(Collected(infos, mods))

\* a finished run with a failing matcher and an active item of another one
C1_Witness ==
  /\ Ended
  /\ Len(modules) >= 2
  /\ Fails(modules[1])
  /\ Len(active) >= 1

\* C2 as stated: a payload with a missing or empty mandatory field always
\* ends the run fatally (error logged, non-zero exit) with no plugin loaded.
C2_Original ==
  (pc = "exited" /\ ~PayloadValid) =>
    /\ exitCode # 0
    /\ \E k \in 1..Len(log) : log[k].level = "error"
    /\ modules = <<>>

\* C2 amended: with such a payload no plugin module is ever loaded or
\* called, and whenever the handler was started the run ends fatally: the
\* only log entry is the error and the exit code is 1.
C2_FatalBeforeLoad ==
  ~PayloadValid =>
    /\ modules = <<>>
    /\ \A j \in DOMAIN loads : loads[j] = 0 /\ calls[j] = 0
    /\ active = <<>>
    /\ stdout = <<>>
    /\ (pc = "exited" /\ started) =>
         /\ exitCode = 1
         /\ Len(log) = 1
         /\ log[1].level = "error"

C2_Witness ==
  /\ pc = "exited"
  /\ started
  /\ stdin.json
  /\ stdin.value.kind = "object"
  /\ stdin.value.hook_event_name = Str("")
  /\ stdin.value.prompt = Str("docker help")
  /\ exitCode = 1

\* C3 as stated: the exit code is non-zero exactly when the payload failed
\* validation.
C3_Original == pc = "exited" => (exitCode # 0 <=> ~PayloadValid)

\* C3 amended: the exit code is non-zero exactly when the handler was
\* started and the payload failed validation; it is 0 for every valid
\* payload whatever the matchers do, and 0 when the filter found no matcher
\* file.
C3_ExitCode ==
  /\ exitCode \in {-1, 0, 1}
  /\ pc = "exited" <=> exitCode # -1
  /\ pc = "exited" => (exitCode # 0 <=> (started /\ ~PayloadValid))

C3_Witness ==
  /\ Ended
  /\ PayloadValid
  /\ exitCode = 0
  /\ \A i \in 1..Len(modules) : Fails(modules[i])
  /\ Len(modules) >= 2

\* C4: while the loop runs the list holds exactly one item for each matcher
\* processed so far whose module loaded, whose export was callable, whose
\* call completed, whose result passed validation and declares relevance
\* (relevant true, or matchCount > 0), in the order of the matcher files;
\* at the end of the run the list holds the same items (ranked in 2.0).
C4_ActiveIff ==
  /\ pc \in {"runMatchers", "call", "await"} =>
       active = Collected(SubSeq(matcherFiles, 1, idx - 1), SubSeq(modules, 1, idx - 1))
  /\ Ended => IsPermutation(Unscored(active), Collected(matcherFiles, modules))
  /\ (Ended /\ build = "1.0") => active = Collected(matcherFiles, modules)

\* a finished run with a valid result that does not declare relevance next
\* to an active item
C4_Witness ==
  /\ Ended
  /\ Len(active) = 1
  /\ \E i \in 1..Len(modules) : PassesValidation(modules[i]) /\ ~Relevant(modules[i])

\* the mandatory fields of the installed schema, in schema order
Mandatory == IF build = "1.0" THEN <<"version", "relevant", "priority", "relevance">>
             ELSE <<"version", "matchCount">>

Missing(v) == v.t \in {"undefined", "null"}

\* what the schema asks of a mandatory field
FieldValid(f, v) ==
  CASE f = "version" -> v = Str(build)
    [] f = "relevant" -> v.t = "boolean"
    [] f = "priority" -> v \in {Str("critical"), Str("high"), Str("medium"), Str("low")}
    [] f = "relevance" -> v \in {Str("high"), Str("medium"), Str("low")}
    [] OTHER -> v.t = "number" /\ v.s = "int" /\ v.n >= 0

\* the first mandatory field of r that the schema rejects
FirstBad(r) ==
  LET bad == {k \in 1..Len(Mandatory) : ~FieldValid(Mandatory[k], r[Mandatory[k]])}
  IN Mandatory[CHOOSE k \in bad : \A l \in bad : k <= l]

\* the matcher whose module is unrestricted has been dealt with
SubjectSettled == subject > 0 /\ idx > subject

SubjectResult == modules[subject].result

\* the handler logged a validation failure of matcher i that names field
InvalidLogged(i, field) ==
  \E k \in 1..Len(log) :
    log[k] = LogEntry("error", "matcher-result-invalid", matcherFiles[i].name, field)

\* the list holds what the matchers other than the subject produced so far
SubjectExcluded ==
  LET n == IF pc = "exited" THEN Len(modules) ELSE idx - 1
  IN IsPermutation(Unscored(active),
                   Collected(RemoveAt(SubSeq(matcherFiles, 1, n), subject),
                             RemoveAt(SubSeq(modules, 1, n), subject)))

\* the failure did not end the run: no fatal exit, and at the end every
\* matcher file has been required
NotAborted ==
  /\ exitCode # 1
  /\ pc = "exited" => \A j \in DOMAIN loads : loads[j] = 1

\* C5 as stated: whenever a mandatory field of a result object is undefined
\* or null, the validation failure names that field, the plugin is excluded
\* and the run goes on.
C5_Original ==
  (SubjectSettled /\ SubjectResult.kind = "object") =>
    \A k \in 1..Len(Mandatory) :
      Missing(SubjectResult[Mandatory[k]]) =>
        /\ InvalidLogged(subject, Mandatory[k])
        /\ SubjectExcluded
        /\ NotAborted

\* C5 amended: whenever a mandatory field of a result object is undefined or
\* null, validation fails and the failure names the first mandatory field,
\* in schema order, that is missing or invalid (the missing field itself
\* when the fields before it are valid); the plugin is excluded and the run
\* goes on.
C5_MissingFieldRejected ==
  (SubjectSettled /\ SubjectResult.kind = "object") =>
    \A k \in 1..Len(Mandatory) :
      Missing(SubjectResult[Mandatory[k]]) =>
        /\ InvalidLogged(subject, FirstBad(SubjectResult))
        /\ (\A l \in 1..(k - 1) : FieldValid(Mandatory[l], SubjectResult[Mandatory[l]]))
             => InvalidLogged(subject, Mandatory[k])
        /\ SubjectExcluded
        /\ NotAborted

\* a finished run in which the last mandatory field alone is null and the
\* other matcher is active
C5_Witness ==
  /\ Ended
  /\ subject > 0
  /\ SubjectResult.kind = "object"
  /\ Len(Mandatory) >= 2
  /\ SubjectResult[Mandatory[Len(Mandatory)]] = Null
  /\ \A l \in 1..(Len(Mandatory) - 1) : FieldValid(Mandatory[l], SubjectResult[Mandatory[l]])
  /\ Len(active) = 1

\* C6: a result object whose version is not the one literal of the
\* installed schema ("1.0" under 2.0, "2.0" under 1.0, the literal with
\* surrounding blanks, any other value) fails validation on the version
\* field whatever its other fields are; nothing of it reaches the list,
\* which holds what the other matcher produced, and the run goes on.
C6_SingleVersion ==
  (SubjectSettled /\ SubjectResult.kind = "object" /\ SubjectResult.version # Str(build)) =>
    /\ InvalidLogged(subject, "version")
    /\ SubjectExcluded
    /\ NotAborted

\* a finished run whose subject result carries the active literal with
\* surrounding blanks and is otherwise valid and relevant
C6_Witness ==
  /\ Ended
  /\ subject > 0
  /\ SubjectResult.kind = "object"
  /\ SubjectResult.version.t = "string"
  /\ SubjectResult.version.s # build
  /\ Trim(SubjectResult.version.s) = build
  /\ \A l \in 2..Len(Mandatory) : FieldValid(Mandatory[l], SubjectResult[Mandatory[l]])
  /\ Len(active) = 1

\* a finished run whose subject result is a valid relevant result of the
\* other known version
C6_WitnessOtherVersion ==
  /\ Ended
  /\ subject > 0
  /\ build = "2.0"
  /\ SubjectResult = V1(Bool(TRUE), Str("critical"), Str("high"), Str("agent"))
  /\ Len(active) = 1

RECURSIVE MaxCapped(_)
MaxCapped(items) ==
  IF items = <<>> THEN 0
  ELSE LET c == IF Head(items).matchCount < 10 THEN Head(items).matchCount ELSE 10
           r == MaxCapped(Tail(items))
       IN IF c > r THEN c ELSE r

\* C7: in the 2.0 scheme the score of every item is min(matchCount, 10)
\* over the largest min(matchCount, 10) of the run, so a sole candidate
\* declaring 10 or more scores as one declaring 10, and two candidates
\* declaring 10 or more score the same.
C7_CapAtTen ==
  (Ended /\ build = "2.0") =>
    /\ \A k \in 1..Len(active) :
         ScoreEq(active[k].score,
                 Score(IF active[k].matchCount < 10 THEN active[k].matchCount ELSE 10,
                       MaxCapped(active)))
    /\ (Len(active) = 1 /\ active[1].matchCount >= 10) => ScoreEq(active[1].score, Score(10, 10))
    /\ \A k, l \in 1..Len(active) :
         (active[k].matchCount >= 10 /\ active[l].matchCount >= 10)
           => ScoreEq(active[k].score, active[l].score)

\* a finished 2.0 run with two candidates declaring 50 and 10
C7_Witness ==
  /\ Ended
  /\ build = "2.0"
  /\ \E k, l \in 1..Len(active) : active[k].matchCount = 50 /\ active[l].matchCount = 10

\* C8: in the 2.0 scheme a non-empty ranked list starts with score 1, every
\* score is in (0, 1], scores do not increase along the list, items of equal
\* score keep the order of their matcher files, and candidates declaring 8
\* and 4 are listed as (8, 4) with scores 1 and 1/2; the reply lists the
\* items in that order.
C8_Ranking ==
  (Ended /\ build = "2.0" /\ active # <<>>) =>
    /\ active[1].score.num = active[1].score.den
    /\ \A k \in 1..Len(active) :
         /\ active[k].score.den > 0
         /\ 0 < active[k].score.num
         /\ active[k].score.num <= active[k].score.den
    /\ \A k, l \in 1..Len(active) : k < l => ~ScoreLess(active[k].score, active[l].score)
    /\ LET c == Collected(matcherFiles, modules)
       IN /\ \A k, l \in 1..Len(active) :
               (k < l /\ ScoreEq(active[k].score, active[l].score)) =>
                 \E x, y \in 1..Len(c) :
                   x < y /\ c[x] = Unscored(active)[k] /\ c[y] = Unscored(active)[l]
          /\ (Len(c) = 2 /\ {c[1].matchCount, c[2].matchCount} = {4, 8}) =>
               /\ active[1].matchCount = 8 /\ ScoreEq(active[1].score, Score(1, 1))
               /\ active[2].matchCount = 4 /\ ScoreEq(active[2].score, Score(1, 2))
    /\ stdout = <<Reply(formatActiveSkillsAsDirectiveV2(active))>>

\* a finished 2.0 run in which the candidate declaring 4 was found before
\* the one declaring 8
C8_Witness ==
  /\ Ended
  /\ build = "2.0"
  /\ Len(modules) = 2
  /\ modules[1].result.matchCount = Num(4)
  /\ modules[2].result.matchCount = Num(8)
  /\ Len(active) = 2

C9_WitnessReply == Ended /\ Len(active) = 2 /\ Len(stdout) = 1

\* the files that carry the naming convention of the installed filter
Candidates ==
  IF platform = "sh"
  THEN {p \in files : \/ IsPrefix(PROJECT_SKILLS, p) /\ ShSkillMatch(p)
                      \/ IsPrefix(USER_SKILLS, p) /\ ShSkillMatch(p)
                      \/ ShAgentMatch(PROJECT_AGENTS, p)
                      \/ ShAgentMatch(USER_AGENTS, p)}
  ELSE {p \in files : \/ IsPrefix(PROJECT_SKILLS, p) /\ PsSkillMatch(p)
                      \/ IsPrefix(USER_SKILLS, p) /\ PsSkillMatch(p)
                      \/ \E r \in {PROJECT_AGENTS, USER_AGENTS, PROJECT_COMMANDS, USER_COMMANDS} :
                           PsSiblingMatch(r, p)}

\* C10: the handler is started only with a non-empty list of matcher files
\* found by the filter, and nothing of the handler happens before it is
\* started; when no file carries the naming convention the run ends with
\* exit code 0, the handler not started, nothing logged and no reply.
C10_TwoStage ==
  /\ started => (MATCHER_PATHS # <<>> /\ \A k \in 1..Len(MATCHER_PATHS) : MATCHER_PATHS[k] \in Candidates)
  /\ ~started => (idx = 0 /\ modules = <<>> /\ log = <<>> /\ stdout = <<>> /\ exitCode # 1)
  /\ Candidates = {} =>
       /\ ~started
       /\ pc \in {"hook", "exited"}
       /\ pc = "exited" => exitCode = 0

\* a run that the filter ended although files exist under the roots
C10_Witness ==
  /\ pc = "exited"
  /\ ~started
  /\ files # {}
  /\ Candidates = {}
  /\ exitCode = 0

----------------------------------------------------------------------------
(* Identity of the capability a matcher file belongs to, by the layouts    *)
(* the filters search: <root>/.claude/skills/<name>/rio/<file> for a       *)
(* skill, <root>/.claude/(agents|commands)/<name>.rio.matcher.cjs for an   *)
(* agent or a command.                                                     *)

EntityKind(p) ==
  CASE p[3] = "skills" -> "skill"
    [] p[3] = "agents" -> "agent"
    [] OTHER -> "command"

EntityName(p) ==
  IF p[3] = "skills" THEN p[4]
  ELSE CASE p[4] = "a.rio.matcher.cjs" -> "a"
         [] p[4] = "b.rio.matcher.cjs" -> "b"
         [] OTHER -> p[4]

Identity(p) == <<EntityKind(p), EntityName(p)>>

\* C11: every (kind, name) of an item of the reply is the identity of a
\* matcher file that the fast filter handed over in this run.
C11_RoundTrip ==
  (Ended /\ stdout # <<>>) =>
    \A k \in 1..Len(active) :
      \E i \in 1..Len(MATCHER_PATHS) :
        <<active[k].type, active[k].name>> =
          <<Str(EntityKind(MATCHER_PATHS[i])), EntityName(MATCHER_PATHS[i])>>

\* C12: of the matcher files with one identity found under the project and
\* the user root, one record is kept, the project-level one; its matcher is
\* called once and the identity is listed at most once.
C12_Dedup ==
  pc \in {"runMatchers", "call", "await", "exited"} =>
    /\ \A i, j \in 1..Len(matcherFiles) :
         Identity(matcherFiles[i].matcherPath) = Identity(matcherFiles[j].matcherPath)
           => i = j
    /\ \A i \in 1..Len(matcherFiles), k \in 1..Len(MATCHER_PATHS) :
         (Identity(matcherFiles[i].matcherPath) = Identity(MATCHER_PATHS[k])
            /\ MATCHER_PATHS[k][1] = "proj")
           => matcherFiles[i].matcherPath[1] = "proj"
    /\ \A k, l \in 1..Len(active) :
         (active[k].name = active[l].name /\ active[k].type = active[l].type) => k = l

\* C13: the name of every matcher file record is the name of the skill,
\* agent or command the file belongs to: the directory of the skill, or the
\* file name of the sibling file with the suffix stripped.
C13_NameDerivation ==
  \A k \in 1..Len(matcherFiles) :
    matcherFiles[k].name = EntityName(matcherFiles[k].matcherPath)

\* the matcher just dealt with added an item to the list
JustAdded ==
  /\ pc = "runMatchers"
  /\ idx > 1
  /\ idx - 1 <= Len(modules)
  /\ PassesValidation(modules[idx - 1])
  /\ Relevant(modules[idx - 1])
  /\ active # <<>>

\* C14: the kind of an item is the type its validated result carries, and
\* without one (type absent, null or the empty string) the kind of the root
\* directory its matcher path lies under.
C14_Kind ==
  JustAdded =>
    LET r == modules[idx - 1].result
        item == active[Len(active)]
    IN item.type = IF Missing(r.type) \/ r.type = Str("")
                   THEN Str(EntityKind(matcherFiles[idx - 1].matcherPath))
                   ELSE r.type

----------------------------------------------------------------------------
(* Reading a reply text: the fixed lines of the two formatters, and the    *)
(* lines that are suggestion entries.                                      *)

TierHeading(p) ==
  CASE p = "critical" -> "CRITICAL REQUIREMENT - Auto-invoke immediately:"
    [] p = "high" -> "STRONGLY RECOMMENDED:"
    [] p = "medium" -> "SUGGESTED (consider invoking):"
    [] OTHER -> "OPTIONAL (available if needed):"

TierHeadings == {TierHeading(p) : p \in validPriorities}

\* the lines a text holds whatever its items are
FixedLines ==
  TierHeadings
  \cup {"", "BEFORE PROCEEDING WITH THIS REQUEST:", "BEFORE PROCEEDING:", "IMPORTANT:",
        "- These MUST be invoked as your FIRST action",
        "- Wait for each to complete its workflow",
        "- Do NOT proceed with manual tool usage that these handle",
        RULE, TITLE, "ACTION: Consider using the above tools BEFORE responding"}

\* the invocation syntax of a kind for the name x, in the wordings in use
Syntax(kind, x) ==
  CASE kind = "skill" ->
         {"Invoke the Skill tool with parameter: skill=\"" \o x \o "\"",
          "Use Skill tool with skill=\"" \o x \o "\"",
          "Skill tool, skill=\"" \o x \o "\""}
    [] kind = "agent" ->
         {"Delegate to subagent using Task tool with parameter: subagent_type=\"" \o x \o "\"",
          "Delegate using Task tool with subagent_type=\"" \o x \o "\"",
          "Task tool, subagent_type=\"" \o x \o "\""}
    [] kind = "command" -> {"SlashCommand tool, command=\"/" \o x \o "\""}
    [] OTHER -> {}

\* the ways a line can introduce the entry of the item named x
Leads(x) ==
  {ToString(n) \o ". " : n \in 1..(MaxFiles + 1)}
  \cup {ToString(n) \o ". " \o x \o ": " : n \in 1..(MaxFiles + 1)}
  \cup {"- " \o x \o ": "}

\* the lines that are a suggestion entry of an item: its name with the
\* invocation syntax of its kind
EntryForms(item) ==
  {lead \o syntax : lead \in Leads(item.name), syntax \in Syntax(ToText(item.type), item.name)}

\* the lines that list an item, with or without the syntax
ListingForms(item) ==
  EntryForms(item) \cup {"- " \o item.name \o " (" \o ToText(item.type) \o ")"}

ReplyText == stdout[1].hookSpecificOutput.additionalContext

priorityRank(p) ==
  CASE p = "critical" -> 0 [] p = "high" -> 1 [] p = "medium" -> 2 [] OTHER -> 3

relevanceRank(r) == CASE r = "high" -> 0 [] r = "medium" -> 1 [] OTHER -> 2

\* item i of the list ranks before item j: more urgent, or as urgent and
\* more confident, or equal in both and earlier in the list
RanksBefore(items, i, j) ==
  LET pi == priorityRank(items[i].priority)
      pj == priorityRank(items[j].priority)
      ri == relevanceRank(items[i].relevance)
      rj == relevanceRank(items[j].relevance)
  IN \/ pi < pj
     \/ pi = pj /\ ri < rj
     \/ pi = pj /\ ri = rj /\ i < j

\* line x of the text stands under the heading of tier p, with no empty
\* line and no other heading between
UnderHeading(text, x, p) ==
  \E h \in 1..(x - 1) :
    /\ text[h] = TierHeading(p)
    /\ \A k \in (h + 1)..x : text[k] \notin FixedLines

\* C15: in the text of the legacy formatter every item is listed under the
\* heading of its priority, and an item that ranks before another one by
\* (priority, relevance, position in the input list) is listed before it.
C15_LegacyOrder ==
  (Ended /\ build = "1.0" /\ stdout # <<>>) =>
    /\ \A i \in 1..Len(active) :
         \E x \in 1..Len(ReplyText) :
           /\ ReplyText[x] \in ListingForms(active[i])
           /\ UnderHeading(ReplyText, x, active[i].priority)
    /\ \A i, j \in 1..Len(active) :
         RanksBefore(active, i, j) =>
           \E x, y \in 1..Len(ReplyText) :
             /\ x < y
             /\ ReplyText[x] \in ListingForms(active[i])
             /\ ReplyText[y] \in ListingForms(active[j])

\* the positions of the lines of a text that are not fixed lines
EntryLines(text) == {k \in 1..Len(text) : text[k] \notin FixedLines}

\* C16: a reply text holds exactly one suggestion entry for each item, with
\* the item's name and the invocation syntax of its kind, and every tier
\* heading is followed by an entry.
C16_WellFormed ==
  (Ended /\ stdout # <<>>) =>
    /\ Cardinality(EntryLines(ReplyText)) = Len(active)
    /\ \E f \in [1..Len(active) -> EntryLines(ReplyText)] :
         /\ \A i, j \in 1..Len(active) : i # j => f[i] # f[j]
         /\ \A i \in 1..Len(active) : ReplyText[f[i]] \in EntryForms(active[i])
    /\ \A h \in 1..Len(ReplyText) :
         ReplyText[h] \in TierHeadings =>
           (h < Len(ReplyText) /\ ReplyText[h + 1] \notin FixedLines)

----------------------------------------------------------------------------
(* The transcript cache, a plugin that never settles, the context, and the *)
(* outcome of a run as a function of its inputs.                           *)

\* C17: in one run the transcript file is read and parsed at most once,
\* however many accessor calls are made and whether they come while the
\* first parse is pending or after it; it is not read when no accessor is
\* called.
C17_SingleFlight ==
  /\ transcript.reads <= 1
  /\ transcript.asked = 0 => (transcript.reads = 0 /\ transcript.cache = "none")
  /\ transcript.asked > 0 => (transcript.reads = 1 /\ transcript.cache # "none")

\* two accessor calls were made and the first parse is still pending
C17_Witness ==
  /\ transcript.asked >= 2
  /\ transcript.cache = "pending"
  /\ transcript.reads = 1

\* the event loop runs every step that is ready
SpecLive == Init /\ [][Next]_vars /\ WF_vars(Next)

\* C18: a run that was started with a valid payload ends, with every
\* matcher file loaded, also when the call of one matcher never settles.
C18_HangLiveness ==
  (started /\ PayloadValid) ~> (pc = "exited" /\ \A j \in DOMAIN loads : loads[j] = 1)

\* C19: every matcher is called with the context as main built it.
C19_ContextFrame ==
  pc = "call" => context = buildContext(validatePayload(stdin.value).value, build)

\* the records main derives from the list of paths
RecordsOf(paths) ==
  [i \in 1..Len(paths) |->
     IF build = "1.0" THEN matcherFile(paths[i]) ELSE matcherFileV2(paths[i])]

\* the items a run over these paths and modules ends with
ItemsOf(paths, mods) ==
  IF build = "1.0" THEN Collected(RecordsOf(paths), mods)
  ELSE Rank(Collected(RecordsOf(paths), mods))

\* the text of the installed formatter
TextOf(items) ==
  IF build = "1.0" THEN formatActiveSkillsAsDirective(items)
  ELSE formatActiveSkillsAsDirectiveV2(items)

\* C20: what a run ends with is a function of the payload, the list of
\* matcher paths and what the modules at these paths do: the list of active
\* items, the reply with its text and the exit code are the same in every
\* run that has these in common, whatever the order of the file reads and
\* whatever the matchers did to the context.
C20_Determinism ==
  (pc = "exited" /\ started) =>
    IF ~PayloadValid
    THEN active = <<>> /\ stdout = <<>> /\ exitCode = 1
    ELSE /\ Len(modules) = Len(MATCHER_PATHS)
         /\ active = ItemsOf(MATCHER_PATHS, modules)
         /\ stdout = IF ItemsOf(MATCHER_PATHS, modules) = <<>> THEN <<>>
                     ELSE <<Reply(TextOf(ItemsOf(MATCHER_PATHS, modules)))>>
         /\ exitCode = 0

\* a finished run with two active items in which a matcher changed the
\* context and another one read the transcript
C20_Witness ==
  /\ Ended
  /\ Len(active) >= 2
  /\ transcript.asked >= 1
  /\ context.prompt = Str("tampered")
  /\ Len(stdout) = 1

----------------------------------------------------------------------------
(* The order of the checks of a result                                     *)

\* the fields of the installed schema in schema order; under 2.0 the
\* optional kind comes last
SchemaFields ==
  IF build = "1.0" THEN <<"version", "relevant", "priority", "relevance">>
  ELSE <<"version", "matchCount", "type">>

PrimitiveType(f) ==
  CASE f = "relevant" -> "boolean"
    [] f = "matchCount" -> "number"
    [] OTHER -> "string"

InAllowedSet(f, v) ==
  CASE f = "version" -> v.s = build
    [] f = "relevant" -> TRUE
    [] f = "priority" -> v.s \in {"critical", "high", "medium", "low"}
    [] f = "relevance" -> v.s \in {"high", "medium", "low"}
    [] f = "matchCount" -> v.s = "int" /\ v.n >= 0
    [] OTHER -> v.s \in {"skill", "agent", "command"}

\* the earliest failing check of a field in the order presence, primitive
\* type, non-empty after trimming, membership; "none" for a value that passes
EarliestCheck(f, v) ==
  IF Missing(v) THEN (IF f = "type" THEN "none" ELSE "missing")
  ELSE IF v.t # PrimitiveType(f) THEN "type"
  ELSE IF v.t = "string" /\ Trim(v.s) = "" THEN "empty"
  ELSE IF ~InAllowedSet(f, v) THEN "value"
  ELSE "none"

\* the same where the enumerated fields have the two checks presence and
\* membership only
EnumCheck(f, v) ==
  IF f \in {"priority", "relevance", "type"} /\ EarliestCheck(f, v) \in {"type", "empty"}
  THEN "value"
  ELSE EarliestCheck(f, v)

\* position of the first field of r with a failing check, 0 when all pass
FirstFailing(r) ==
  LET bad == {k \in 1..Len(SchemaFields) : EarliestCheck(SchemaFields[k], r[SchemaFields[k]]) # "none"}
  IN IF bad = {} THEN 0 ELSE CHOOSE k \in bad : \A l \in bad : k <= l

\* the validators name the two membership failures of matchCount apart
CheckClass(c) == IF c \in {"integer", "negative"} THEN "value" ELSE c

\* the handler validated the subject's result
SubjectValidated == SubjectSettled /\ Completes(modules[subject]) /\ SubjectResult.kind = "object"

\* the CLI validated the subject's result
CliValidated ==
  /\ cliPc = "done"
  /\ cliValidation.error \in {"none", "result"}
  /\ SubjectResult.kind = "object"

----------------------------------------------------------------------------
(* The kind of an accepted result                                          *)

\* the kinds the installed schema allows
AllowedKinds == IF build = "1.0" THEN {"skill", "agent"} ELSE {"skill", "agent", "command"}

\* C22: a result the validator accepts has no type, or a type that is one
\* of the kinds the installed schema allows (skill, agent for 1.0; skill,
\* agent, command for 2.0); a result whose type is present and is not such
\* a string is rejected, so every item in the list handed to the formatter
\* has an allowed kind.
C22_KindValidated ==
  /\ (SubjectValidated /\ validateResult(SubjectResult).ok
        /\ \A f \in ResultFields : ~InvalidLogged(subject, f)) =>
         \/ Missing(SubjectResult.type)
         \/ SubjectResult.type.t = "string" /\ SubjectResult.type.s \in AllowedKinds
  /\ \A k \in 1..Len(active) :
       active[k].type.t = "string" /\ active[k].type.s \in AllowedKinds

----------------------------------------------------------------------------
(* The fast filter and the state of the search roots                       *)

\* the matcher files under the search roots that exist and can be read
Remaining ==
  {p \in Candidates : \A r \in SearchRoots : IsPrefix(r, p) => roots[r] = "ok"}

C23_WitnessPs1 ==
  /\ platform = "ps1"
  /\ started
  /\ Len(MATCHER_PATHS) = 1
  /\ \E r \in SearchRoots : roots[r] = "missing"
  /\ \E r \in SearchRoots : roots[r] = "unreadable" /\ \E p \in Candidates : IsPrefix(r, p)

----------------------------------------------------------------------------
(* Setup and settings.json                                                 *)

\* a is b with elements left out
RECURSIVE IsSubsequence(_, _)
IsSubsequence(a, b) ==
  IF a = <<>> THEN TRUE
  ELSE IF b = <<>> THEN FALSE
  ELSE IF Head(a) = Head(b) THEN IsSubsequence(Tail(a), Tail(b))
  ELSE IsSubsequence(a, Tail(b))

\* the hook commands setup writes
FrameworkCommands == {betterHooksCommand(os, u) : os \in Platforms, u \in BOOLEAN}

HoldsFramework(hookGroup) ==
  /\ hookGroup.array
  /\ \E h \in 1..Len(hookGroup.hooks) : hookGroup.hooks[h] \in FrameworkCommands

\* C24: whatever settings.json held before, after n >= 1 setup runs that
\* ended without error every hook group, every other hook event and every
\* other top-level key it held is still there, the UserPromptSubmit array
\* has exactly one group that holds the framework's hook command, and a
\* further run changes nothing.
C24_SettingsMerge ==
  (runs >= 1 /\ cliResult = "ok") =>
    /\ settingsBefore.keys \subseteq settings.keys
    /\ settingsBefore.events \subseteq settings.events
    /\ IsSubsequence(settingsBefore.groups, settings.groups)
    /\ Cardinality({k \in 1..Len(settings.groups) : HoldsFramework(settings.groups[k])}) = 1
    /\ runs >= 2 => settings = settingsFirst

\* the matcher files the installed filter discovers under the .claude tree
\* of a directory
DiscoveredUnder(dir) == {p \in Candidates : IsPrefix(<<dir, ".claude">>, p)}

\* a settings.json that parses holds the framework's command
HoldsRioCommand(s) == \E k \in 1..Len(s.groups) : groupIncludes(s.groups[k], RioMarker)

\* C25: after removeCommand has finished on a target directory, no matcher
\* file that the fast filter discovers remains under that directory's
\* .claude tree, the framework's hooks directory is gone, and settings.json
\* holds the framework's hook command no longer.
C25_RemoveComplete ==
  rmPc = "done" =>
    /\ DiscoveredUnder(targetDir(isUserLevel)) = {}
    /\ ~hooksDir
    /\ settings.file = "json" => ~HoldsRioCommand(settings)

\* the commands of the hook groups that are not the framework's, in order
RECURSIVE OwnCommands(_)
OwnCommands(groups) ==
  IF groups = <<>> THEN <<>>
  ELSE LET own(hook) == RioMarker \notin hook.has
       IN SelectSeq(Head(groups).hooks, own) \o OwnCommands(Tail(groups))

\* C30: cleanupSettings removes nothing from settings.json but the
\* framework's own hook command: every command that is not the framework's,
\* in a group of its own or in a group that holds the framework's command
\* too, every other hook event and every other top-level key are still
\* there afterwards, and a file without the framework's command is not
\* rewritten.
C30_CleanupFrame ==
  rmPc = "done" =>
    /\ OwnCommands(settings.groups) = OwnCommands(settingsBefore.groups)
    /\ settings.events = settingsBefore.events
    /\ settings.keys = settingsBefore.keys
    /\ ~HoldsRioCommand(settingsBefore) => (~removed.settings /\ settings = settingsBefore)

\* the runtime took the subject's module: its callable was called
RuntimeAccepted == calls[subject] >= 1

\* the CLI took the subject's module: validateMatcherFile did not reject
\* the export
CliAccepted == cliValidation.error # "export"

\* C29: the CLI and the runtime agree on what a valid matcher module is: for
\* every export shape of a module that loads, validateMatcherFile /
\* validateMatcher accepts the module exactly when validateMatcherModule of
\* the runtime accepts it, and both call the same callable.
C29_SameModules ==
  (pc = "exited" /\ cliPc = "done" /\ modules[subject].shape # "throws") =>
    /\ CliAccepted <=> RuntimeAccepted
    /\ (CliAccepted /\ RuntimeAccepted) =>
         validateMatcherModule(modules[subject].shape).value = "export"

\* the jobs whose generateMatcher was started and has not resolved
Running == {j \in DOMAIN jobs : jobs[j].state = "running"}

\* C26: in every state of generateMatchers the number of generateMatcher
\* jobs started and not yet resolved is at most options.concurrency, for
\* every input list, lists with a repeated skillName included.
C26_ConcurrencyLimit == Cardinality(Running) <= concurrency

\* C27: the promise returned by generateMatchers resolves only after the
\* generateMatcher job of every input prompt has resolved, and the results
\* array it resolves with holds exactly one entry per input prompt, for
\* every input list, lists with a repeated skillName included.
C27_PoolComplete ==
  resolved => (report.pending = 0 /\ report.results = Len(skillPrompts))

\* every job has run its onProgress to the end
AllDone == \A j \in DOMAIN jobs : jobs[j].state = "done"

\* C28: when the promise returned by generateMatchers resolves, the awaited
\* onProgress has run to its end for every input prompt: the completed list
\* of the command has one entry per prompt, created plus failed is the
\* number of prompts, and the exit status computed from failed reflects the
\* validation of every generated matcher.
C28_ProgressBeforeResolve ==
  /\ resolved =>
       /\ report.unsettled = 0
       /\ report.completed = Len(skillPrompts)
       /\ report.created + report.failed = Len(skillPrompts)
  /\ (resolved /\ AllDone) =>
       (report.exit = 1 <=> \E j \in DOMAIN jobs : jobs[j].outcome = "failed")
====
